---- MODULE Spec2Model ----
(***************************************************************************)
(* Model of the budget engine of controle_despesas: Categoria, Lancamento  *)
(* (Receita / Despesa), Alerta and OrcamentoMensal.                        *)
(*                                                                         *)
(* Monetary amounts are Python floats in the source; every amount used     *)
(* here is a whole number of currency units, for which float arithmetic    *)
(* is exact, so amounts are modelled as integers.  Free-text strings are   *)
(* sequences of one-character strings so that str.lower() and str.strip()  *)
(* are computed, not assumed; enum members are TLA+ strings.  A uuid4      *)
(* identifier is a tagged number such as <<"lanc", 1>>.  Python None is    *)
(* the empty tuple; an Optional[float] is None or Some(number).  A raised  *)
(* exception is the record [classe, mensagem]; None means no exception.    *)
(***************************************************************************)
EXTENDS Integers, Sequences, FiniteSets, TLC

None == <<>>

Some(x) == <<x>>

Val(o) == o[1]

ValueError(mensagem) == [classe |-> "ValueError", mensagem |-> mensagem]

(***************************************************************************)
(* Bound of the model: the number of calls made on the budget in one run.  *)
(***************************************************************************)
MaxChamadas == 3

(***************************************************************************)
(* str.lower() and str.strip().                                            *)
(***************************************************************************)
Maiusculas ==
    <<"A","B","C","D","E","F","G","H","I","J","K","L","M",
      "N","O","P","Q","R","S","T","U","V","W","X","Y","Z">>

Minusculas ==
    <<"a","b","c","d","e","f","g","h","i","j","k","l","m",
      "n","o","p","q","r","s","t","u","v","w","x","y","z">>

LowerChar(c) ==
    IF \E i \in 1..Len(Maiusculas) : Maiusculas[i] = c
    THEN Minusculas[CHOOSE i \in 1..Len(Maiusculas) : Maiusculas[i] = c]
    ELSE c

lower(s) == [i \in 1..Len(s) |-> LowerChar(s[i])]

RECURSIVE lstrip(_)
lstrip(s) == IF s # <<>> /\ Head(s) = " " THEN lstrip(Tail(s)) ELSE s

RECURSIVE rstrip(_)
rstrip(s) ==
    IF s # <<>> /\ s[Len(s)] = " " THEN rstrip(SubSeq(s, 1, Len(s) - 1)) ELSE s

strip(s) == rstrip(lstrip(s))

(***************************************************************************)
(* datetime.date: a record compared lexicographically.                     *)
(***************************************************************************)
Data(y, m, d) == [year |-> y, month |-> m, day |-> d]

DataLt(a, b) ==
    \/ a.year < b.year
    \/ a.year = b.year /\ a.month < b.month
    \/ a.year = b.year /\ a.month = b.month /\ a.day < b.day

(***************************************************************************)
(* ISO 8601 text, as date.isoformat / date.fromisoformat write and read    *)
(* it: decimal digits, zero-padded to a fixed width.                       *)
(***************************************************************************)
Algarismos == <<"0", "1", "2", "3", "4", "5", "6", "7", "8", "9">>

\* the decimal digits of n, zero-padded to largura characters
RECURSIVE Digitos(_, _)
Digitos(n, largura) ==
    IF largura = 0 THEN <<>>
    ELSE Append(Digitos(n \div 10, largura - 1), Algarismos[(n % 10) + 1])

\* the number a sequence of decimal digits writes
RECURSIVE Numero(_)
Numero(s) ==
    IF s = <<>> THEN 0
    ELSE 10 * Numero(SubSeq(s, 1, Len(s) - 1))
         + ((CHOOSE k \in 1..10 : Algarismos[k] = s[Len(s)]) - 1)

\* date.isoformat(): YYYY-MM-DD
DateIsoformat(d) ==
    Digitos(d.year, 4) \o <<"-">> \o Digitos(d.month, 2) \o <<"-">>
        \o Digitos(d.day, 2)

\* date.fromisoformat()
DateFromIsoformat(s) ==
    Data(Numero(SubSeq(s, 1, 4)), Numero(SubSeq(s, 6, 7)), Numero(SubSeq(s, 9, 10)))

\* a datetime: a date and the time of day
DataHora(data, hour, minute, second, microsecond) ==
    [data |-> data, hour |-> hour, minute |-> minute, second |-> second,
     microsecond |-> microsecond]

DatetimeIsoformat_SemMicrossegundos(t) ==
    DateIsoformat(t.data) \o <<"T">> \o Digitos(t.hour, 2) \o <<":">>
        \o Digitos(t.minute, 2) \o <<":">> \o Digitos(t.second, 2)

\* datetime.isoformat(): YYYY-MM-DDTHH:MM:SS, then .ffffff unless the
\* microsecond is 0
DatetimeIsoformat(t) ==
    DateIsoformat(t.data) \o <<"T">> \o Digitos(t.hour, 2) \o <<":">>
        \o Digitos(t.minute, 2) \o <<":">> \o Digitos(t.second, 2)
        \o (IF t.microsecond = 0 THEN <<>>
            ELSE <<".">> \o Digitos(t.microsecond, 6))

\* datetime.fromisoformat()
DatetimeFromIsoformat(s) ==
    DataHora(DateFromIsoformat(SubSeq(s, 1, 10)), Numero(SubSeq(s, 12, 13)),
             Numero(SubSeq(s, 15, 16)), Numero(SubSeq(s, 18, 19)),
             IF Len(s) > 19 THEN Numero(SubSeq(s, 21, 26)) ELSE 0)

(***************************************************************************)
(* Categoria.                                                              *)
(***************************************************************************)
\* Categoria.__init__ with its setters (nome, tipo, limite_mensal): the
\* record [erro, obj], the exception raised or the object constructed
NovaCategoria(id, nome, tipo, limite_mensal, descricao) ==
    IF nome = <<>>
    THEN [erro |-> ValueError("Nome da categoria e obrigatorio"), obj |-> None]
    ELSE IF Len(strip(nome)) < 2
    THEN [erro |-> ValueError("Nome da categoria deve ter pelo menos 2 caracteres"),
          obj |-> None]
    ELSE IF limite_mensal # None /\ tipo = "RECEITA"
    THEN [erro |-> ValueError("Categorias de receita nao podem ter limite de gastos"),
          obj |-> None]
    ELSE IF limite_mensal # None /\ Val(limite_mensal) <= 0
    THEN [erro |-> ValueError("Limite mensal deve ser maior que zero"), obj |-> None]
    ELSE [erro |-> None,
          obj |-> [id |-> id, nome |-> strip(nome), tipo |-> tipo,
                   limite_mensal |-> limite_mensal, descricao |-> descricao]]

\* Categoria.__eq__
CategoriaEq(a, b) == lower(a.nome) = lower(b.nome) /\ a.tipo = b.tipo

\* Categoria.to_dict
CategoriaToDict(c) ==
    [id |-> c.id, nome |-> c.nome, tipo |-> c.tipo,
     limite_mensal |-> c.limite_mensal, descricao |-> c.descricao]

\* Categoria.from_dict: [erro, obj]
CategoriaFromDict(data) ==
    NovaCategoria(data.id, data.nome, data.tipo, data.limite_mensal,
                  data.descricao)

\* Categoria.nome setter: [erro, obj]
DefinirNome(categoria, valor) ==
    IF valor = <<>>
    THEN [erro |-> ValueError("Nome da categoria e obrigatorio"), obj |-> categoria]
    ELSE IF Len(strip(valor)) < 2
    THEN [erro |-> ValueError("Nome da categoria deve ter pelo menos 2 caracteres"),
          obj |-> categoria]
    ELSE [erro |-> None, obj |-> [categoria EXCEPT !.nome = strip(valor)]]

\* Categoria.tipo setter (the argument is a TipoCategoria): [erro, obj]
DefinirTipo(categoria, valor) ==
    [erro |-> None, obj |-> [categoria EXCEPT !.tipo = valor]]

\* Categoria.limite_mensal setter: [erro, obj]
DefinirLimiteMensal(categoria, valor) ==
    IF valor # None /\ categoria.tipo = "RECEITA"
    THEN [erro |-> ValueError("Categorias de receita nao podem ter limite de gastos"),
          obj |-> categoria]
    ELSE IF valor # None /\ Val(valor) <= 0
    THEN [erro |-> ValueError("Limite mensal deve ser maior que zero"),
          obj |-> categoria]
    ELSE [erro |-> None, obj |-> [categoria EXCEPT !.limite_mensal = valor]]

\* Categoria.descricao setter: [erro, obj]
DefinirDescricao(categoria, valor) ==
    [erro |-> None,
     obj |-> [categoria EXCEPT !.descricao = IF valor = None THEN None
                                             ELSE strip(valor)]]

(***************************************************************************)
(* Lancamento, Receita, Despesa.                                           *)
(***************************************************************************)
LIMITE_ALTO_VALOR == 500

ValidarCategoria_Qualquer(classe, categoria) ==
    categoria.tipo \in {"RECEITA", "DESPESA"}

\* Receita._validar_categoria / Despesa._validar_categoria
ValidarCategoria(classe, categoria) ==
    IF classe = "RECEITA" THEN categoria.tipo = "RECEITA"
                          ELSE categoria.tipo = "DESPESA"

\* _verificar_alertas tagging an amount equal to the threshold
VerificarAlertas_MaiorOuIgual(valor) ==
    IF valor >= LIMITE_ALTO_VALOR THEN <<"ALTO_VALOR">> ELSE <<>>

\* Despesa._verificar_alertas: the tags set at construction
VerificarAlertas(valor) ==
    IF valor > LIMITE_ALTO_VALOR THEN <<"ALTO_VALOR">> ELSE <<>>

\* Receita(...) / Despesa(...): Lancamento.__init__ runs the setters in the
\* order valor, categoria, data, descricao, forma_pagamento; Despesa.__init__
\* then sets the alert tags.  categoria is the Categoria object; the entry
\* keeps a reference to it (its id).  The result is the record [erro, obj].
NovoLancamento(classe, valor, categoria, data, descricao, forma_pagamento, id) ==
    IF valor <= 0
    THEN [erro |-> ValueError("Valor do lancamento deve ser maior que zero"),
          obj |-> None]
    ELSE IF ~ValidarCategoria(classe, categoria)
    THEN [erro |-> ValueError("Categoria incompativel com o tipo de lancamento"),
          obj |-> None]
    ELSE IF descricao = <<>>
    THEN [erro |-> ValueError("Descricao e obrigatoria"), obj |-> None]
    ELSE [erro |-> None,
          obj |-> [id |-> id, tipo |-> classe, valor |-> valor,
                   categoria |-> categoria.id, data |-> data,
                   descricao |-> strip(descricao),
                   forma_pagamento |-> forma_pagamento,
                   alertas |-> IF classe = "DESPESA" THEN VerificarAlertas(valor)
                               ELSE <<>>]]

\* Lancamento.valor setter on a constructed entry: [erro, obj]
DefinirValor(l, valor) ==
    IF valor <= 0
    THEN [erro |-> ValueError("Valor do lancamento deve ser maior que zero"),
          obj |-> l]
    ELSE [erro |-> None, obj |-> [l EXCEPT !.valor = valor]]

\* Lancamento.categoria setter on a constructed entry: [erro, obj]
DefinirCategoria(l, categoria) ==
    IF ~ValidarCategoria(l.tipo, categoria)
    THEN [erro |-> ValueError("Categoria incompativel com o tipo de lancamento"),
          obj |-> l]
    ELSE [erro |-> None, obj |-> [l EXCEPT !.categoria = categoria.id]]

\* Lancamento.mes_ano
LancMesAno(l) == <<l.data.month, l.data.year>>

\* Lancamento.__eq__ comparing the descriptions as written
LancEq_SensivelACaixa(a, b) ==
    \/ a.id = b.id
    \/ a.data = b.data /\ a.descricao = b.descricao

\* Lancamento.__eq__
LancEq(a, b) ==
    \/ a.id = b.id
    \/ a.data = b.data /\ lower(a.descricao) = lower(b.descricao)

\* Lancamento.__lt__
LancLt(a, b) ==
    IF a.data = b.data THEN a.valor < b.valor ELSE DataLt(a.data, b.data)

\* membership of a tag in a tag list
TemTag(tags, t) == \E i \in 1..Len(tags) : tags[i] = t

ExcedeLimite_MaiorOuIgual(l, categoria, total_categoria_mes) ==
    /\ categoria.limite_mensal # None
    /\ total_categoria_mes + l.valor >= Val(categoria.limite_mensal)

\* Despesa.verificar_limite_categoria: the value returned
ExcedeLimite(l, categoria, total_categoria_mes) ==
    /\ categoria.limite_mensal # None
    /\ total_categoria_mes + l.valor > Val(categoria.limite_mensal)

AposVerificarLimite_SemTeste(l, categoria, total_categoria_mes) ==
    IF ExcedeLimite(l, categoria, total_categoria_mes)
    THEN [l EXCEPT !.alertas = Append(@, "LIMITE_EXCEDIDO")]
    ELSE l

\* Despesa.verificar_limite_categoria: the entry after the call
AposVerificarLimite(l, categoria, total_categoria_mes) ==
    IF ExcedeLimite(l, categoria, total_categoria_mes)
       /\ ~TemTag(l.alertas, "LIMITE_EXCEDIDO")
    THEN [l EXCEPT !.alertas = Append(@, "LIMITE_EXCEDIDO")]
    ELSE l

\* Lancamento.to_dict, and Despesa.to_dict which adds the tags
LancToDict(l) ==
    LET base == [id |-> l.id, tipo |-> l.tipo, valor |-> l.valor,
                 categoria_id |-> l.categoria, data |-> DateIsoformat(l.data),
                 descricao |-> l.descricao,
                 forma_pagamento |-> l.forma_pagamento]
    IN  IF l.tipo = "DESPESA" THEN base @@ [alertas |-> l.alertas] ELSE base

\* JsonStorage._criar_lancamento_de_dict: the entry, or None for a record
\* that is neither RECEITA nor DESPESA
CriarLancamentoDeDict(data, categoria) ==
    IF data.tipo \in {"RECEITA", "DESPESA"}
    THEN NovoLancamento(data.tipo, data.valor, categoria,
                        DateFromIsoformat(data.data), data.descricao,
                        data.forma_pagamento, data.id).obj
    ELSE None

\* JsonStorage.carregar_lancamentos for one record: the category is looked
\* up by identifier, and a record without one is skipped (None)
CarregarLancamento(data, cats) ==
    IF data.categoria_id \in DOMAIN cats
    THEN CriarLancamentoDeDict(data, cats[data.categoria_id])
    ELSE None

(***************************************************************************)
(* Alerta and its factory methods.  The message is kept as the values the  *)
(* f-string formats into it.  The uuid4 identifier is the fresh value the  *)
(* caller of the factory passes in (a number n, giving <<"alerta", n>>).     *)
(***************************************************************************)
\* Alerta.criar_alerta_alto_valor
CriarAlertaAltoValor(id, lancamento_id, valor) ==
    [id |-> <<"alerta", id>>, tipo |-> "ALTO_VALOR",
     mensagem |-> [texto |-> "Despesa de alto valor registrada", valor |-> valor],
     lancamento_id |-> lancamento_id, categoria_id |-> None, mes_ano |-> None,
     lido |-> FALSE]

\* Alerta.criar_alerta_limite_excedido
CriarAlertaLimiteExcedido(id, categoria_id, categoria_nome, limite, total) ==
    [id |-> <<"alerta", id>>, tipo |-> "LIMITE_EXCEDIDO",
     mensagem |-> [texto |-> "Limite da categoria excedido",
                   categoria |-> categoria_nome, limite |-> limite, total |-> total],
     lancamento_id |-> None, categoria_id |-> categoria_id, mes_ano |-> None,
     lido |-> FALSE]

\* abs()
Abs(x) == IF x < 0 THEN -x ELSE x

\* Alerta.criar_alerta_deficit
CriarAlertaDeficit(id, mes, ano, saldo) ==
    [id |-> <<"alerta", id>>, tipo |-> "DEFICIT_ORCAMENTARIO",
     mensagem |-> [texto |-> "Deficit orcamentario", mes |-> mes, ano |-> ano,
                   valor |-> Abs(saldo)],
     lancamento_id |-> None, categoria_id |-> None, mes_ano |-> <<mes, ano>>,
     lido |-> FALSE]

\* Alerta.__init__ with the tipo and mensagem setters: [erro, obj].  Here the
\* message is the text itself and the alert carries data_criacao, which is
\* the argument when one is given and datetime.now() (agora) otherwise.
NovoAlerta(tipo, mensagem, lancamento_id, categoria_id, mes_ano, id, data_criacao, lido, agora) ==
    IF mensagem = <<>>
    THEN [erro |-> ValueError("Mensagem do alerta e obrigatoria"), obj |-> None]
    ELSE [erro |-> None,
          obj |-> [id |-> id, tipo |-> tipo, mensagem |-> strip(mensagem),
                   data_criacao |-> IF data_criacao = None THEN agora
                                    ELSE data_criacao,
                   lancamento_id |-> lancamento_id,
                   categoria_id |-> categoria_id, mes_ano |-> mes_ano,
                   lido |-> lido]]

\* Alerta.marcar_como_lido
MarcarComoLido(a) == [a EXCEPT !.lido = TRUE]

\* Alerta.to_dict
AlertaToDict(a) ==
    [id |-> a.id, tipo |-> a.tipo, mensagem |-> a.mensagem,
     data_criacao |-> DatetimeIsoformat(a.data_criacao),
     lancamento_id |-> a.lancamento_id, categoria_id |-> a.categoria_id,
     mes_ano |-> IF a.mes_ano # None THEN a.mes_ano ELSE None,
     lido |-> a.lido]

\* Alerta.from_dict: [erro, obj]
AlertaFromDict(data, agora) ==
    NovoAlerta(data.tipo, data.mensagem, data.lancamento_id, data.categoria_id,
               IF data.mes_ano # None THEN data.mes_ano ELSE None,
               data.id,
               IF data.data_criacao # None
               THEN DatetimeFromIsoformat(data.data_criacao) ELSE None,
               data.lido, agora)

(***************************************************************************)
(* OrcamentoMensal.  A budget is the record                                *)
(*   [id, mes, ano, receitas_previstas, lancamentos, alertas];             *)
(* cats maps a category id to the Categoria object the entries reference.  *)
(***************************************************************************)
\* OrcamentoMensal.__init__ with its setters: the record [erro, obj]
NovoOrcamento(id, mes, ano, receitas_previstas) ==
    IF ~(1 <= mes /\ mes <= 12)
    THEN [erro |-> ValueError("Mes deve ser um inteiro entre 1 e 12"), obj |-> None]
    ELSE IF ano < 1900 \/ ano > 2100
    THEN [erro |-> ValueError("Ano deve ser um inteiro valido"), obj |-> None]
    ELSE IF receitas_previstas < 0
    THEN [erro |-> ValueError("Receitas previstas nao pode ser negativo"),
          obj |-> None]
    ELSE [erro |-> None,
          obj |-> [id |-> id, mes |-> mes, ano |-> ano,
                   receitas_previstas |-> receitas_previstas,
                   lancamentos |-> <<>>, alertas |-> <<>>]]

\* OrcamentoMensal.mes_ano
OrcMesAno(orc) == <<orc.mes, orc.ano>>

\* sum(lanc.valor for lanc in seq)
RECURSIVE SomaValores(_)
SomaValores(seq) ==
    IF seq = <<>> THEN 0 ELSE Head(seq).valor + SomaValores(Tail(seq))

\* isinstance(lanc, Receita) / isinstance(lanc, Despesa)
EhReceita(l) == l.tipo = "RECEITA"
EhDespesa(l) == l.tipo = "DESPESA"

TotalReceitas_TodosOsLancamentos(orc) == SomaValores(orc.lancamentos)

\* OrcamentoMensal.total_receitas
TotalReceitas(orc) == SomaValores(SelectSeq(orc.lancamentos, EhReceita))

\* OrcamentoMensal.total_despesas
TotalDespesas(orc) == SomaValores(SelectSeq(orc.lancamentos, EhDespesa))

\* OrcamentoMensal.saldo
Saldo(orc) == TotalReceitas(orc) - TotalDespesas(orc)

\* OrcamentoMensal.saldo_disponivel
SaldoDisponivel(orc) == orc.receitas_previstas - TotalDespesas(orc)

\* tem_deficit counting a balance of zero as a deficit
TemDeficit_MenorOuIgual(orc) == Saldo(orc) <= 0

\* tem_deficit decided from the planned income
TemDeficit_Previsto(orc) == SaldoDisponivel(orc) < 0

\* OrcamentoMensal.tem_deficit
TemDeficit(orc) == Saldo(orc) < 0

\* total_por_categoria matching the category by identity
TotalPorCategoria_PorId(orc, cats, categoria) ==
    LET NaCategoria(l) == l.categoria = categoria.id
    IN  SomaValores(SelectSeq(orc.lancamentos, NaCategoria))

\* OrcamentoMensal.total_por_categoria
TotalPorCategoria(orc, cats, categoria) ==
    LET NaCategoria(l) == CategoriaEq(cats[l.categoria], categoria)
    IN  SomaValores(SelectSeq(orc.lancamentos, NaCategoria))

\* the quotient of two amounts, kept exact: the fraction in lowest terms
RECURSIVE MDC(_, _)
MDC(a, b) == IF b = 0 THEN a ELSE MDC(b, a % b)

Fracao(num, den) == [num |-> num \div MDC(num, den), den |-> den \div MDC(num, den)]

DespesasPorCategoria_ComReceitas(orc, cats) ==
    LET nomes == {cats[orc.lancamentos[i].categoria].nome : i \in 1..Len(orc.lancamentos)}
    IN  [nome \in nomes |->
            LET ComEsseNome(l) == cats[l.categoria].nome = nome
            IN  SomaValores(SelectSeq(orc.lancamentos, ComEsseNome))]

\* OrcamentoMensal.despesas_por_categoria: the mapping from the name of a
\* category to the sum of the expenses whose category has that name
DespesasPorCategoria(orc, cats) ==
    LET despesas == SelectSeq(orc.lancamentos, EhDespesa)
        nomes == {cats[despesas[i].categoria].nome : i \in 1..Len(despesas)}
    IN  [nome \in nomes |->
            LET ComEsseNome(l) == cats[l.categoria].nome = nome
            IN  SomaValores(SelectSeq(despesas, ComEsseNome))]

\* OrcamentoMensal.despesas_por_forma_pagamento: the mapping from the value
\* of a payment method to the sum of the expenses paid with it
DespesasPorFormaPagamento(orc) ==
    LET despesas == SelectSeq(orc.lancamentos, EhDespesa)
        formas == {despesas[i].forma_pagamento : i \in 1..Len(despesas)}
    IN  [forma \in formas |->
            LET ComEssaForma(l) == l.forma_pagamento = forma
            IN  SomaValores(SelectSeq(despesas, ComEssaForma))]

PercentualPorCategoria_SobreTudo(orc, cats) ==
    LET total == TotalDespesas(orc) + TotalReceitas(orc)
        despesas_cat == DespesasPorCategoria(orc, cats)
    IN  IF total = 0 THEN <<>>
        ELSE [cat \in DOMAIN despesas_cat |-> Fracao(despesas_cat[cat] * 100, total)]

\* OrcamentoMensal.percentual_por_categoria: (valor / total) * 100 for each
\* name, or the empty mapping when the total expense is 0
PercentualPorCategoria(orc, cats) ==
    LET total == TotalDespesas(orc)
        despesas_cat == DespesasPorCategoria(orc, cats)
    IN  IF total = 0 THEN <<>>
        ELSE [cat \in DOMAIN despesas_cat |-> Fracao(despesas_cat[cat] * 100, total)]

\* sorted(self._lancamentos, key=lambda x: x.data): stable, each element is
\* placed before the first already placed element dated after it
RECURSIVE InserirPorData(_, _)
InserirPorData(ordenada, x) ==
    IF ordenada = <<>> THEN <<x>>
    ELSE IF DataLt(x.data, Head(ordenada).data) THEN <<x>> \o ordenada
    ELSE <<Head(ordenada)>> \o InserirPorData(Tail(ordenada), x)

RECURSIVE OrdenarPorData(_)
OrdenarPorData(seq) ==
    IF seq = <<>> THEN <<>>
    ELSE InserirPorData(OrdenarPorData(SubSeq(seq, 1, Len(seq) - 1)), seq[Len(seq)])

\* the loop of saldo_por_dia: saldos[lanc.data] = acumulado, a later entry of
\* the same date overwriting the earlier one
RECURSIVE Acumular(_, _, _)
Acumular(seq, acumulado, saldos) ==
    IF seq = <<>> THEN saldos
    ELSE LET lanc == Head(seq)
             novo == IF EhReceita(lanc) THEN acumulado + lanc.valor
                     ELSE acumulado - lanc.valor
         IN  Acumular(Tail(seq), novo,
                      [d \in (DOMAIN saldos) \cup {lanc.data} |->
                          IF d = lanc.data THEN novo ELSE saldos[d]])

SaldoPorDia_SoDoDia(orc) ==
    LET datas == {orc.lancamentos[i].data : i \in 1..Len(orc.lancamentos)}
    IN  [d \in datas |->
            LET NoDia(l) == l.data = d
            IN  Acumular(SelectSeq(orc.lancamentos, NoDia), 0, <<>>)[d]]

\* OrcamentoMensal.saldo_por_dia
SaldoPorDia(orc) == Acumular(OrdenarPorData(orc.lancamentos), 0, <<>>)

\* list.sort(): a stable sort by __lt__; each element is placed before the
\* first already placed element it is less than
RECURSIVE InserirOrdenado(_, _)
InserirOrdenado(ordenada, x) ==
    IF ordenada = <<>> THEN <<x>>
    ELSE IF LancLt(x, Head(ordenada)) THEN <<x>> \o ordenada
    ELSE <<Head(ordenada)>> \o InserirOrdenado(Tail(ordenada), x)

RECURSIVE Ordenar(_)
Ordenar(seq) ==
    IF seq = <<>> THEN <<>>
    ELSE InserirOrdenado(Ordenar(SubSeq(seq, 1, Len(seq) - 1)), seq[Len(seq)])

\* lancamento in self._lancamentos
Contem(lancamentos, l) ==
    \E i \in 1..Len(lancamentos) : LancEq(lancamentos[i], l)

\* the month check comparing the months and not the years
PertenceAoMes_SoMes(orc, l) == l.data.month = orc.mes

\* the month check of adicionar_lancamento
PertenceAoMes(orc, l) == LancMesAno(l) = OrcMesAno(orc)

\* the search for an earlier deficit alert comparing with (ano, mes)
DeficitExistente_AnoMes(orc) ==
    \E i \in 1..Len(orc.alertas) :
        /\ orc.alertas[i].tipo = "DEFICIT_ORCAMENTARIO"
        /\ orc.alertas[i].mes_ano = <<orc.ano, orc.mes>>

\* any(a.tipo == DEFICIT_ORCAMENTARIO and a.mes_ano == self.mes_ano ...)
DeficitExistente(orc) ==
    \E i \in 1..Len(orc.alertas) :
        /\ orc.alertas[i].tipo = "DEFICIT_ORCAMENTARIO"
        /\ orc.alertas[i].mes_ano = OrcMesAno(orc)

\* the Despesa branch checking the category limit before the high value
AlertasDaDespesa_LimiteAntes(orc, cats, l, uid) ==
    LET categoria == cats[l.categoria]
        total_categoria == TotalPorCategoria(orc, cats, categoria)
        limite == IF ExcedeLimite(l, categoria, total_categoria)
                  THEN <<CriarAlertaLimiteExcedido(
                            uid, categoria.id, categoria.nome,
                            Val(categoria.limite_mensal),
                            total_categoria + l.valor)>>
                  ELSE <<>>
        alto == IF TemTag(l.alertas, "ALTO_VALOR")
                THEN <<CriarAlertaAltoValor(uid + Len(limite), l.id, l.valor)>>
                ELSE <<>>
    IN  limite \o alto

\* the Despesa branch with the limit alert raised once per category, as the
\* deficit alert is raised once per month
AlertasDaDespesa_UmPorCategoria(orc, cats, l, uid) ==
    LET categoria == cats[l.categoria]
        total_categoria == TotalPorCategoria(orc, cats, categoria)
        ja_avisado == \E i \in 1..Len(orc.alertas) :
                          /\ orc.alertas[i].tipo = "LIMITE_EXCEDIDO"
                          /\ orc.alertas[i].categoria_id = categoria.id
        alto == IF TemTag(l.alertas, "ALTO_VALOR")
                THEN <<CriarAlertaAltoValor(uid, l.id, l.valor)>>
                ELSE <<>>
        limite == IF ExcedeLimite(l, categoria, total_categoria) /\ ~ja_avisado
                  THEN <<CriarAlertaLimiteExcedido(
                            uid + Len(alto), categoria.id, categoria.nome,
                            Val(categoria.limite_mensal),
                            total_categoria + l.valor)>>
                  ELSE <<>>
    IN  alto \o limite

\* adicionar_lancamento, the Despesa branch: the alerts generated before the
\* insertion; uid is the first fresh alert identifier
AlertasDaDespesa(orc, cats, l, uid) ==
    LET categoria == cats[l.categoria]
        total_categoria == TotalPorCategoria(orc, cats, categoria)
        alto == IF TemTag(l.alertas, "ALTO_VALOR")
                THEN <<CriarAlertaAltoValor(uid, l.id, l.valor)>>
                ELSE <<>>
        limite == IF ExcedeLimite(l, categoria, total_categoria)
                  THEN <<CriarAlertaLimiteExcedido(
                            uid + Len(alto), categoria.id, categoria.nome,
                            Val(categoria.limite_mensal),
                            total_categoria + l.valor)>>
                  ELSE <<>>
    IN  alto \o limite

\* adicionar_lancamento, after the insertion: the deficit alert, if any
AlertaDeDeficit(orc, uid) ==
    IF TemDeficit(orc) /\ ~DeficitExistente(orc)
    THEN <<CriarAlertaDeficit(uid, orc.mes, orc.ano, Saldo(orc))>>
    ELSE <<>>

\* the insertion without the sort
InserirLancamento_SemOrdenar(lancamentos, l) == Append(lancamentos, l)

\* self._lancamentos.append(lancamento); self._lancamentos.sort()
InserirLancamento(lancamentos, l) == Ordenar(Append(lancamentos, l))

\* OrcamentoMensal.adicionar_lancamento.  The result is the record
\*   [erro, orc, lancamento, retorno]: the ValueError raised (None when the
\* call returns), the budget and the entry object after the call, and the
\* list returned.
AdicionarLancamento(orc, cats, lancamento, uid) ==
    IF ~PertenceAoMes(orc, lancamento)
    THEN [erro |-> ValueError("Lancamento nao pertence ao orcamento"),
          orc |-> orc,
          lancamento |-> lancamento, retorno |-> None]
    ELSE IF Contem(orc.lancamentos, lancamento)
    THEN [erro |-> ValueError("Lancamento ja existe neste orcamento"),
          orc |-> orc,
          lancamento |-> lancamento, retorno |-> None]
    ELSE
      LET despesa == EhDespesa(lancamento)
          gerados == IF despesa THEN AlertasDaDespesa(orc, cats, lancamento, uid)
                     ELSE <<>>
          l2 == IF despesa
                THEN AposVerificarLimite(lancamento, cats[lancamento.categoria],
                        TotalPorCategoria(orc, cats, cats[lancamento.categoria]))
                ELSE lancamento
          orc1 == [orc EXCEPT !.lancamentos = InserirLancamento(@, l2),
                              !.alertas = @ \o gerados]
          deficit == AlertaDeDeficit(orc1, uid + Len(gerados))
      IN  [erro |-> None,
           orc |-> [orc1 EXCEPT !.alertas = @ \o deficit],
           lancamento |-> l2,
           retorno |-> gerados \o deficit]

\* OrcamentoMensal.remover_lancamento: [orc, retorno]
RECURSIVE RemoverPrimeiro(_, _)
RemoverPrimeiro(lancamentos, lancamento_id) ==
    IF lancamentos = <<>> THEN <<>>
    ELSE IF Head(lancamentos).id = lancamento_id THEN Tail(lancamentos)
    ELSE <<Head(lancamentos)>> \o RemoverPrimeiro(Tail(lancamentos), lancamento_id)

RemoverLancamento_RetiraAlertas(orc, lancamento_id) ==
    LET Fica(a) == a.lancamento_id # lancamento_id
    IN  [orc |-> [orc EXCEPT !.lancamentos = RemoverPrimeiro(@, lancamento_id),
                             !.alertas = SelectSeq(@, Fica)],
         retorno |-> IF \E i \in 1..Len(orc.lancamentos) :
                           orc.lancamentos[i].id = lancamento_id
                     THEN (CHOOSE l \in {orc.lancamentos[i] : i \in 1..Len(orc.lancamentos)} :
                              l.id = lancamento_id)
                     ELSE None]

\* the removal popping the last entry of the collection, not the one found
RemoverLancamento_RetiraOUltimo(orc, lancamento_id) ==
    IF \E i \in 1..Len(orc.lancamentos) : orc.lancamentos[i].id = lancamento_id
    THEN [orc |-> [orc EXCEPT !.lancamentos = SubSeq(@, 1, Len(@) - 1)],
          retorno |-> orc.lancamentos[Len(orc.lancamentos)]]
    ELSE [orc |-> orc, retorno |-> None]

RemoverLancamento(orc, lancamento_id) ==
    IF \E i \in 1..Len(orc.lancamentos) : orc.lancamentos[i].id = lancamento_id
    THEN LET i == CHOOSE k \in 1..Len(orc.lancamentos) :
                    /\ orc.lancamentos[k].id = lancamento_id
                    /\ \A j \in 1..(k - 1) : orc.lancamentos[j].id # lancamento_id
         IN  [orc |-> [orc EXCEPT !.lancamentos = RemoverPrimeiro(@, lancamento_id)],
              retorno |-> orc.lancamentos[i]]
    ELSE [orc |-> orc, retorno |-> None]

\* the setter without its validation
DefinirReceitasPrevistas_SemValidar(orc, valor) ==
    [erro |-> None, orc |-> [orc EXCEPT !.receitas_previstas = valor]]

\* OrcamentoMensal.receitas_previstas setter: [erro, orc]
DefinirReceitasPrevistas(orc, valor) ==
    IF valor < 0
    THEN [erro |-> ValueError("Receitas previstas nao pode ser negativo"), orc |-> orc]
    ELSE [erro |-> None, orc |-> [orc EXCEPT !.receitas_previstas = valor]]

(***************************************************************************)
(* The inputs the callers draw from.                                       *)
(***************************************************************************)
Alimentacao == <<"F","o","o","d">>
AlimentacaoMaiuscula == <<" ","F","O","O","D">>
AlimentacaoMinuscula == <<"f","o","o","d">>

\* the categories of the session: an expense category with a limit, an
\* expense category equal to it under Categoria.__eq__ but with another
\* identifier and no limit, and an income category of the same name
CategoriasIniciais ==
    LET c1 == NovaCategoria(<<"cat", 1>>, Alimentacao, "DESPESA", Some(500), None).obj
        c2 == NovaCategoria(<<"cat", 2>>, AlimentacaoMaiuscula, "DESPESA", None, None).obj
        c3 == NovaCategoria(<<"cat", 3>>, AlimentacaoMinuscula, "RECEITA", None, None).obj
    IN  (c1.id :> c1) @@ (c2.id :> c2) @@ (c3.id :> c3)

LancamentoIds == {<<"lanc", 1>>, <<"lanc", 2>>, <<"lanc", 3>>}

\* what is entered: class, category, amount and payment method
Movimentos ==
    { <<"RECEITA", <<"cat", 3>>, 1000, "PIX">>,
      <<"DESPESA", <<"cat", 1>>, 200, "DEBITO">>,
      <<"DESPESA", <<"cat", 1>>, 400, "DEBITO">>,
      <<"DESPESA", <<"cat", 1>>, 500, "PIX">>,
      <<"DESPESA", <<"cat", 1>>, 700, "CREDITO">>,
      <<"DESPESA", <<"cat", 2>>, 500, "PIX">>,
      <<"DESPESA", <<"cat", 2>>, 700, "DEBITO">> }

Cafe == <<"C","a","f","e">>
CafeMaiusculo == <<"C","A","F","E"," ">>
Pao == <<"P","a","o">>

\* when and under which description: two descriptions that differ only in
\* case and surrounding blanks, two days of the budget's month, the same day
\* of another month and of another year
Ocasioes ==
    { <<Data(2024, 12, 5), Cafe>>, <<Data(2024, 12, 5), CafeMaiusculo>>,
      <<Data(2024, 12, 10), Cafe>>, <<Data(2024, 12, 10), Pao>>,
      <<Data(2024, 11, 5), Cafe>>, <<Data(2025, 12, 5), Cafe>> }

ReceitasPrevistas == {-100, 0, 5000}

\* uuid4() gives an identifier no held entry has; an explicit id= may repeat
\* one.  Unused identifiers are interchangeable, so the smallest stands for
\* them all.
IdsEmUso(orc) == {orc.lancamentos[i].id : i \in 1..Len(orc.lancamentos)}

IdsPossiveis(orc) ==
    LET livres == LancamentoIds \ IdsEmUso(orc)
    IN  IdsEmUso(orc) \cup
        {id \in livres : \A outro \in livres : id[2] <= outro[2]}

(***************************************************************************)
(* The state: the Categoria objects, one OrcamentoMensal, the record of    *)
(* the call that has just ended (None once the caller has dropped it), the *)
(* number of calls made so far, and an object held outside any budget      *)
(* (None while the session only works on the budget).                      *)
(***************************************************************************)
VARIABLES categorias, orcamento, chamada, chamadas, objeto

vars == <<categorias, orcamento, chamada, chamadas, objeto>>

Init ==
    /\ categorias = CategoriasIniciais
    /\ orcamento = NovoOrcamento(<<"orc", 1>>, 12, 2024, 0).obj
    /\ chamada = None
    /\ chamadas = 0
    /\ objeto = None

\* the caller constructs a Receita or a Despesa and hands it to
\* orcamento.adicionar_lancamento
Adicionar ==
    /\ chamada = None /\ chamadas < MaxChamadas
    /\ \E m \in Movimentos, o \in Ocasioes, id \in IdsPossiveis(orcamento) :
          LET c == NovoLancamento(m[1], m[3], categorias[m[2]], o[1], o[2], m[4], id)
              r == AdicionarLancamento(orcamento, categorias, c.obj,
                                       Len(orcamento.alertas) + 1)
          IN  /\ c.erro = None
              /\ orcamento' = r.orc
              /\ chamada' = [op |-> "adicionar_lancamento", antes |-> orcamento,
                             arg |-> c.obj, lancamento |-> r.lancamento,
                             erro |-> r.erro, retorno |-> r.retorno]
    /\ chamadas' = chamadas + 1
    /\ UNCHANGED <<categorias, objeto>>

\* orcamento.remover_lancamento(id)
Remover ==
    /\ chamada = None /\ chamadas < MaxChamadas
    /\ \E id \in LancamentoIds :
          LET r == RemoverLancamento(orcamento, id)
          IN  /\ orcamento' = r.orc
              /\ chamada' = [op |-> "remover_lancamento", antes |-> orcamento,
                             arg |-> id, erro |-> None, retorno |-> r.retorno]
    /\ chamadas' = chamadas + 1
    /\ UNCHANGED <<categorias, objeto>>

\* orcamento.receitas_previstas = valor
DefinirPrevistas ==
    /\ chamada = None /\ chamadas < MaxChamadas
    /\ \E valor \in ReceitasPrevistas :
          LET r == DefinirReceitasPrevistas(orcamento, valor)
          IN  /\ orcamento' = r.orc
              /\ chamada' = [op |-> "receitas_previstas", antes |-> orcamento,
                             arg |-> valor, erro |-> r.erro, retorno |-> None]
    /\ chamadas' = chamadas + 1
    /\ UNCHANGED <<categorias, objeto>>

\* the caller drops what the call returned
Retornar ==
    /\ chamada # None
    /\ chamada' = None
    /\ UNCHANGED <<categorias, orcamento, chamadas, objeto>>

Next == Adicionar \/ Remover \/ DefinirPrevistas \/ Retornar

Spec == Init /\ [][Next]_vars

(***************************************************************************)
(* Vocabulary of the properties.                                           *)
(***************************************************************************)
\* the call that has just ended is adicionar_lancamento
Adicionou == chamada # None /\ chamada.op = "adicionar_lancamento"

\* ... and it returned
AdicionouComSucesso == Adicionou /\ chamada.erro = None

\* the positions of the alerts of one kind in a list of alerts
Posicoes(alertas, tipo) == {i \in 1..Len(alertas) : alertas[i].tipo = tipo}

Quantos(alertas, tipo) == Cardinality(Posicoes(alertas, tipo))

\* the BudgetDeficit alerts of a log that are for the budget's (month, year)
DeficitsDoMes(orc) ==
    {i \in Posicoes(orc.alertas, "DEFICIT_ORCAMENTARIO") :
        orc.alertas[i].mes_ano = <<orc.mes, orc.ano>>}

ErroNaoPertence == ValueError("Lancamento nao pertence ao orcamento")

ErroJaExiste == ValueError("Lancamento ja existe neste orcamento")

\* the call left the entry collection and the alert log as they were
NadaMudou ==
    /\ orcamento.lancamentos = chamada.antes.lancamentos
    /\ orcamento.alertas = chamada.antes.alertas

\* the budget held, before the call, an entry with the identifier of the
\* argument, or one with its date and its description up to case
JaHavia ==
    \E i \in 1..Len(chamada.antes.lancamentos) :
        LET e == chamada.antes.lancamentos[i]
        IN  \/ e.id = chamada.arg.id
            \/ /\ e.data = chamada.arg.data
               /\ lower(e.descricao) = lower(chamada.arg.descricao)

(***************************************************************************)
(* C1.  adicionar_lancamento with an entry whose (month, year) is not the  *)
(* budget's always fails with the validation error of the month check and  *)
(* leaves the entry collection and the alert log exactly as they were.     *)
(***************************************************************************)
C1_MesDiferenteFalha ==
    (Adicionou /\ ( \/ chamada.arg.data.month # chamada.antes.mes
                    \/ chamada.arg.data.year # chamada.antes.ano ))
    => (chamada.erro = ErroNaoPertence /\ NadaMudou)

\* an expense of December of another year is refused by a budget that holds
\* entries and alerts
C1_Witness ==
    /\ Adicionou
    /\ chamada.arg.tipo = "DESPESA"
    /\ chamada.arg.data.month = chamada.antes.mes
    /\ chamada.arg.data.year # chamada.antes.ano
    /\ chamada.antes.lancamentos # <<>>
    /\ chamada.antes.alertas # <<>>
    /\ chamada.erro = ErroNaoPertence

(***************************************************************************)
(* C2 as claimed.  adicionar_lancamento fails as a duplicate whenever the  *)
(* budget already holds an entry with the same identifier, or with the     *)
(* same date and the same description up to case; the collection, the log  *)
(* and the rejected entry's tags are unchanged.                            *)
(***************************************************************************)
C2_DuplicadoFalha_Original ==
    (Adicionou /\ JaHavia)
    => ( /\ chamada.erro = ErroJaExiste
         /\ NadaMudou
         /\ chamada.lancamento.alertas = chamada.arg.alertas )

(***************************************************************************)
(* C2 amended.  For an entry of the budget's (month, year),                *)
(* adicionar_lancamento fails as a duplicate whenever the budget already   *)
(* holds an entry with the same identifier, or with the same date and the  *)
(* same description up to case, whatever the amounts, categories, payment  *)
(* methods and variants; an entry of another month fails the month check   *)
(* first, also when it repeats a held identifier.  In both cases the       *)
(* collection, the log and the rejected entry's tags are unchanged.        *)
(***************************************************************************)
C2_DuplicadoFalha ==
    (Adicionou /\ JaHavia)
    => ( /\ chamada.erro =
              IF <<chamada.arg.data.month, chamada.arg.data.year>>
                    = <<chamada.antes.mes, chamada.antes.ano>>
              THEN ErroJaExiste ELSE ErroNaoPertence
         /\ NadaMudou
         /\ chamada.lancamento.alertas = chamada.arg.alertas )

\* an entry with a fresh identifier is refused as a duplicate of a held entry
\* of the other variant, another amount, another payment method and a
\* description that differs from its own in case only
C2_Witness ==
    /\ Adicionou
    /\ chamada.erro = ErroJaExiste
    /\ \A i \in 1..Len(chamada.antes.lancamentos) :
          chamada.antes.lancamentos[i].id # chamada.arg.id
    /\ \E i \in 1..Len(chamada.antes.lancamentos) :
          LET e == chamada.antes.lancamentos[i]
          IN  /\ e.data = chamada.arg.data
              /\ e.descricao # chamada.arg.descricao
              /\ e.valor # chamada.arg.valor
              /\ e.tipo # chamada.arg.tipo
              /\ e.forma_pagamento # chamada.arg.forma_pagamento

(***************************************************************************)
(* C3.  In every state reached by adicionar_lancamento and                 *)
(* remover_lancamento calls the alert log holds at most one BudgetDeficit  *)
(* alert for the budget's (month, year).                                   *)
(***************************************************************************)
C3_UmDeficitNoMaximo == Cardinality(DeficitsDoMes(orcamento)) <= 1

\* the budget left the deficit and an insertion has put it back there: the
\* log still holds the one alert of the first time
C3_Witness ==
    /\ AdicionouComSucesso
    /\ Saldo(chamada.antes) >= 0
    /\ Saldo(orcamento) < 0
    /\ Cardinality(DeficitsDoMes(chamada.antes)) = 1
    /\ Cardinality(DeficitsDoMes(orcamento)) = 1

(***************************************************************************)
(* C4.  A successful adicionar_lancamento returns a BudgetDeficit alert    *)
(* exactly when the balance (total income minus total expense) after the   *)
(* insertion is negative and the log held no BudgetDeficit alert of this   *)
(* (month, year) before; so after a successful insertion that leaves the   *)
(* balance negative the log holds exactly one.  After Income 1000, Expense *)
(* 400, Expense 700 the balance is -100, tem_deficit is true and the list  *)
(* the second expense call returns holds exactly one BudgetDeficit alert.  *)
(***************************************************************************)
\* the budget held Income 1000 and Expense 400 (in the limited category), no
\* alert had been raised, and Expense 700 of that category has been added
C4_Cenario ==
    /\ AdicionouComSucesso
    /\ chamada.antes.alertas = <<>>
    /\ Len(chamada.antes.lancamentos) = 2
    /\ \E i, j \in 1..2 :
          /\ chamada.antes.lancamentos[i].tipo = "RECEITA"
          /\ chamada.antes.lancamentos[i].valor = 1000
          /\ chamada.antes.lancamentos[j].tipo = "DESPESA"
          /\ chamada.antes.lancamentos[j].valor = 400
          /\ chamada.antes.lancamentos[j].categoria = <<"cat", 1>>
    /\ chamada.arg.tipo = "DESPESA"
    /\ chamada.arg.valor = 700
    /\ chamada.arg.categoria = <<"cat", 1>>

C4_DeficitSeESomenteSe ==
    /\ AdicionouComSucesso =>
         LET saldo == TotalReceitas(orcamento) - TotalDespesas(orcamento)
             devolvidos == Posicoes(chamada.retorno, "DEFICIT_ORCAMENTARIO")
         IN  /\ IF saldo < 0 /\ DeficitsDoMes(chamada.antes) = {}
                THEN /\ Cardinality(devolvidos) = 1
                     /\ \A i \in devolvidos :
                           chamada.retorno[i].mes_ano = <<orcamento.mes, orcamento.ano>>
                ELSE devolvidos = {}
             /\ saldo < 0 => Cardinality(DeficitsDoMes(orcamento)) = 1
    /\ C4_Cenario =>
         /\ Saldo(orcamento) = -100
         /\ TemDeficit(orcamento)
         /\ Quantos(chamada.retorno, "DEFICIT_ORCAMENTARIO") = 1

C4_Witness ==
    /\ C4_Cenario
    /\ Saldo(orcamento) = -100
    /\ Quantos(chamada.retorno, "DEFICIT_ORCAMENTARIO") = 1

(***************************************************************************)
(* C5.  In every state reached by adicionar_lancamento, remover_lancamento *)
(* and planned-income updates, every entry the budget holds has the        *)
(* (month, year) of the budget.                                            *)
(***************************************************************************)
C5_LancamentosDoMes ==
    \A i \in 1..Len(orcamento.lancamentos) :
        /\ orcamento.lancamentos[i].data.month = orcamento.mes
        /\ orcamento.lancamentos[i].data.year = orcamento.ano

\* the planned income has been updated on a budget that holds two entries
C5_Witness ==
    /\ chamada # None
    /\ chamada.op = "receitas_previstas"
    /\ chamada.erro = None
    /\ orcamento.receitas_previstas # chamada.antes.receitas_previstas
    /\ Len(orcamento.lancamentos) = 2

(***************************************************************************)
(* C6.  In every state reached by adicionar_lancamento and                 *)
(* remover_lancamento the entry collection is sorted: by date ascending    *)
(* and, within one date, by amount ascending.                              *)
(***************************************************************************)
C6_Ordenado ==
    \A i \in 1..(Len(orcamento.lancamentos) - 1) :
        LET a == orcamento.lancamentos[i]
            b == orcamento.lancamentos[i + 1]
        IN  \/ DataLt(a.data, b.data)
            \/ a.data = b.data /\ a.valor <= b.valor

\* the entry just added went to the front of a collection of three, two of
\* which share a date and differ in amount
C6_Witness ==
    /\ AdicionouComSucesso
    /\ Len(orcamento.lancamentos) = 3
    /\ orcamento.lancamentos[1].id = chamada.arg.id
    /\ orcamento.lancamentos[2].data = orcamento.lancamentos[3].data
    /\ orcamento.lancamentos[2].valor < orcamento.lancamentos[3].valor

(***************************************************************************)
(* C7.  The list a successful adicionar_lancamento returns holds the new   *)
(* alerts in the order HighValue, LimitExceeded, BudgetDeficit, each at    *)
(* most once; the log after the call is the log before it followed by that *)
(* list; an Income never returns a HighValue or LimitExceeded alert.       *)
(***************************************************************************)
TiposDe(alertas) == [i \in 1..Len(alertas) |-> alertas[i].tipo]

OrdensPermitidas ==
    { <<>>, <<"ALTO_VALOR">>, <<"LIMITE_EXCEDIDO">>, <<"DEFICIT_ORCAMENTARIO">>,
      <<"ALTO_VALOR", "LIMITE_EXCEDIDO">>,
      <<"ALTO_VALOR", "DEFICIT_ORCAMENTARIO">>,
      <<"LIMITE_EXCEDIDO", "DEFICIT_ORCAMENTARIO">>,
      <<"ALTO_VALOR", "LIMITE_EXCEDIDO", "DEFICIT_ORCAMENTARIO">> }

C7_RetornoEmOrdem ==
    AdicionouComSucesso =>
        /\ TiposDe(chamada.retorno) \in OrdensPermitidas
        /\ orcamento.alertas = chamada.antes.alertas \o chamada.retorno
        /\ chamada.arg.tipo = "RECEITA" =>
              /\ Posicoes(chamada.retorno, "ALTO_VALOR") = {}
              /\ Posicoes(chamada.retorno, "LIMITE_EXCEDIDO") = {}

\* one call returns the three alerts and appends them to a log that already
\* held an alert
C7_Witness ==
    /\ AdicionouComSucesso
    /\ chamada.antes.alertas # <<>>
    /\ TiposDe(chamada.retorno)
          = <<"ALTO_VALOR", "LIMITE_EXCEDIDO", "DEFICIT_ORCAMENTARIO">>
    /\ Len(orcamento.alertas) = Len(chamada.antes.alertas) + 3

(***************************************************************************)
(* C8.  Adding an Expense whose category has a limit, when the amounts     *)
(* already held in that category (matched by name up to case, and kind)    *)
(* plus the new amount exceed the limit, returns exactly one LimitExceeded *)
(* alert with the category id and that sum as its total; otherwise (sum    *)
(* not above the limit, or no limit) it returns none.  400 held + 200 new  *)
(* against limit 500 gives one alert with limit 500 and total 600.         *)
(***************************************************************************)
\* the amounts held before the call in the category of the argument
C8_JaNaCategoria ==
    LET cat == categorias[chamada.arg.categoria]
        NaMesma(l) ==
            /\ lower(categorias[l.categoria].nome) = lower(cat.nome)
            /\ categorias[l.categoria].tipo = cat.tipo
    IN  SomaValores(SelectSeq(chamada.antes.lancamentos, NaMesma))

C8_Cenario ==
    /\ AdicionouComSucesso
    /\ Len(chamada.antes.lancamentos) = 1
    /\ chamada.antes.lancamentos[1].tipo = "DESPESA"
    /\ chamada.antes.lancamentos[1].valor = 400
    /\ chamada.antes.lancamentos[1].categoria = <<"cat", 1>>
    /\ chamada.arg.tipo = "DESPESA"
    /\ chamada.arg.valor = 200
    /\ chamada.arg.categoria = <<"cat", 1>>

C8_LimiteExcedido ==
    /\ (AdicionouComSucesso /\ chamada.arg.tipo = "DESPESA") =>
         LET cat == categorias[chamada.arg.categoria]
             soma == C8_JaNaCategoria + chamada.arg.valor
             devolvidos == Posicoes(chamada.retorno, "LIMITE_EXCEDIDO")
         IN  IF cat.limite_mensal # None /\ soma > Val(cat.limite_mensal)
             THEN /\ Cardinality(devolvidos) = 1
                  /\ \A i \in devolvidos :
                        /\ chamada.retorno[i].categoria_id = cat.id
                        /\ chamada.retorno[i].mensagem.categoria = cat.nome
                        /\ chamada.retorno[i].mensagem.limite = Val(cat.limite_mensal)
                        /\ chamada.retorno[i].mensagem.total = soma
             ELSE devolvidos = {}
    /\ C8_Cenario =>
         /\ Quantos(chamada.retorno, "LIMITE_EXCEDIDO") = 1
         /\ \A i \in Posicoes(chamada.retorno, "LIMITE_EXCEDIDO") :
               /\ chamada.retorno[i].categoria_id = <<"cat", 1>>
               /\ chamada.retorno[i].mensagem.limite = 500
               /\ chamada.retorno[i].mensagem.total = 600

C8_Witness ==
    /\ C8_Cenario
    /\ \E i \in 1..Len(chamada.retorno) :
          /\ chamada.retorno[i].tipo = "LIMITE_EXCEDIDO"
          /\ chamada.retorno[i].mensagem.total = 600

(***************************************************************************)
(* C9.  Adding an Expense of 400 in the category of limit 500 to a budget  *)
(* that holds no entry.  As first stated: the call returns the empty list. *)
(***************************************************************************)
C9_Cenario ==
    /\ AdicionouComSucesso
    /\ chamada.antes.lancamentos = <<>>
    /\ chamada.arg.tipo = "DESPESA"
    /\ chamada.arg.valor = 400
    /\ chamada.arg.categoria = <<"cat", 1>>

C9_SemAlertas_Original ==
    C9_Cenario => chamada.retorno = <<>>

(***************************************************************************)
(* C9, amended.  Adding an Expense of 400 in the category of limit 500 to  *)
(* a budget that holds no entry returns no HighValue and no LimitExceeded  *)
(* alert.  The balance becomes -400, so the list is exactly one            *)
(* BudgetDeficit alert, unless the log already holds a BudgetDeficit alert *)
(* of the month, in which case the list is empty.                          *)
(***************************************************************************)
C9_SemAlertas ==
    C9_Cenario =>
        /\ Posicoes(chamada.retorno, "ALTO_VALOR") = {}
        /\ Posicoes(chamada.retorno, "LIMITE_EXCEDIDO") = {}
        /\ TotalReceitas(orcamento) - TotalDespesas(orcamento) = -400
        /\ IF DeficitsDoMes(chamada.antes) = {}
           THEN TiposDe(chamada.retorno) = <<"DEFICIT_ORCAMENTARIO">>
           ELSE chamada.retorno = <<>>

\* the expense of 400 is the first call on the budget and comes back with
\* the deficit alert alone
C9_Witness ==
    /\ C9_Cenario
    /\ chamada.antes.alertas = <<>>
    /\ Len(chamada.retorno) = 1
    /\ chamada.retorno[1].tipo = "DEFICIT_ORCAMENTARIO"
    /\ chamada.retorno[1].mensagem.valor = 400

(***************************************************************************)
(* C10.  Adding an Expense with amount above 500 to a budget that holds no *)
(* entry, when its category has no limit or a limit not below the amount,  *)
(* returns exactly one HighValue alert, which refers to the expense, and   *)
(* no LimitExceeded alert.  An Expense with amount at most 500 never       *)
(* carries the HighValue tag and its insertion returns no HighValue alert. *)
(***************************************************************************)
C10_AltoValor ==
    /\ (AdicionouComSucesso /\ chamada.arg.tipo = "DESPESA") =>
         LET cat == categorias[chamada.arg.categoria]
             altos == Posicoes(chamada.retorno, "ALTO_VALOR")
         IN  /\ ( /\ chamada.antes.lancamentos = <<>>
                  /\ chamada.arg.valor > 500
                  /\ \/ cat.limite_mensal = None
                     \/ Val(cat.limite_mensal) >= chamada.arg.valor ) =>
                   /\ Cardinality(altos) = 1
                   /\ \A i \in altos :
                         chamada.retorno[i].lancamento_id = chamada.arg.id
                   /\ Posicoes(chamada.retorno, "LIMITE_EXCEDIDO") = {}
             /\ chamada.arg.valor <= 500 =>
                   /\ ~TemTag(chamada.lancamento.alertas, "ALTO_VALOR")
                   /\ altos = {}
    /\ \A i \in 1..Len(orcamento.lancamentos) :
          ( /\ orcamento.lancamentos[i].tipo = "DESPESA"
            /\ orcamento.lancamentos[i].valor <= 500 ) =>
              ~TemTag(orcamento.lancamentos[i].alertas, "ALTO_VALOR")

\* an expense of 700 in the category without limit is the first entry
C10_Witness ==
    /\ AdicionouComSucesso
    /\ chamada.antes.lancamentos = <<>>
    /\ chamada.arg.tipo = "DESPESA"
    /\ chamada.arg.valor = 700
    /\ categorias[chamada.arg.categoria].limite_mensal = None
    /\ Quantos(chamada.retorno, "ALTO_VALOR") = 1
    /\ TemTag(chamada.lancamento.alertas, "ALTO_VALOR")

(***************************************************************************)
(* C11.  remover_lancamento(id) removes exactly the held entry with that   *)
(* identifier and returns it, the other entries keeping their relative     *)
(* order; when no held entry has the identifier it returns nothing and     *)
(* leaves the collection as it was.  In both cases the alert log is        *)
(* unchanged: no alert is retracted and none is created, even when the     *)
(* removal turns the balance negative.                                     *)
(***************************************************************************)
Removeu == chamada # None /\ chamada.op = "remover_lancamento"

\* the collection without its k-th entry
SemAPosicao(lancamentos, k) ==
    [i \in 1..(Len(lancamentos) - 1) |->
        IF i < k THEN lancamentos[i] ELSE lancamentos[i + 1]]

C11_RemoverSoOLancamento ==
    Removeu =>
        LET antes == chamada.antes.lancamentos
            achados == {k \in 1..Len(antes) : antes[k].id = chamada.arg}
        IN  /\ Cardinality(achados) <= 1
            /\ \A k \in achados :
                  /\ chamada.retorno = antes[k]
                  /\ orcamento.lancamentos = SemAPosicao(antes, k)
            /\ achados = {} =>
                  /\ chamada.retorno = None
                  /\ orcamento.lancamentos = antes
            /\ orcamento.alertas = chamada.antes.alertas

\* the income is removed from between two entries; the balance turns
\* negative, the alert of the remaining expense stays and no deficit alert
\* appears
C11_Witness ==
    /\ Removeu
    /\ chamada.retorno # None
    /\ chamada.retorno.tipo = "RECEITA"
    /\ Saldo(chamada.antes) >= 0
    /\ Saldo(orcamento) < 0
    /\ chamada.antes.alertas # <<>>
    /\ orcamento.alertas = chamada.antes.alertas
    /\ DeficitsDoMes(orcamento) = {}

(***************************************************************************)
(* A Despesa on its own: verificar_limite_categoria is called on it with   *)
(* figures the caller supplies, and the limit of its category is           *)
(* reassigned between the calls.  The budget of the session may hold       *)
(* entries of the same category.                                           *)
(***************************************************************************)
ValoresDeDespesa == {200, 500, 700}

TotaisInformados == {-300, 0, 100, 300, 301}

LimitesInformados == {None, Some(300), Some(500), Some(0)}

\* the budgets the session may have: none of its entries, or one expense of
\* the limited category
OrcamentosDaSessao ==
    LET vazio == NovoOrcamento(<<"orc", 1>>, 12, 2024, 0).obj
        irma == NovoLancamento("DESPESA", 400, CategoriasIniciais[<<"cat", 1>>],
                               Data(2024, 12, 10), Pao, "DEBITO", <<"lanc", 2>>).obj
    IN  {vazio, AdicionarLancamento(vazio, CategoriasIniciais, irma, 1).orc}

InitDespesa ==
    /\ categorias = CategoriasIniciais
    /\ orcamento \in OrcamentosDaSessao
    /\ chamada = None
    /\ chamadas = 0
    /\ \E valor \in ValoresDeDespesa, c \in {<<"cat", 1>>, <<"cat", 2>>} :
          objeto = NovoLancamento("DESPESA", valor, CategoriasIniciais[c],
                                  Data(2024, 12, 5), Cafe, "PIX", <<"lanc", 1>>).obj

\* despesa.verificar_limite_categoria(total_categoria_mes)
VerificarLimite ==
    /\ chamada = None /\ chamadas < MaxChamadas
    /\ \E total \in TotaisInformados :
          LET categoria == categorias[objeto.categoria]
          IN  /\ objeto' = AposVerificarLimite(objeto, categoria, total)
              /\ chamada' = [op |-> "verificar_limite_categoria", antes |-> objeto,
                             arg |-> total, erro |-> None,
                             retorno |-> ExcedeLimite(objeto, categoria, total)]
    /\ chamadas' = chamadas + 1
    /\ UNCHANGED <<categorias, orcamento>>

\* despesa.categoria.limite_mensal = valor
DefinirLimite ==
    /\ chamada = None /\ chamadas < MaxChamadas
    /\ \E valor \in LimitesInformados :
          LET r == DefinirLimiteMensal(categorias[objeto.categoria], valor)
          IN  /\ categorias' = [categorias EXCEPT ![objeto.categoria] = r.obj]
              /\ chamada' = [op |-> "limite_mensal",
                             antes |-> categorias[objeto.categoria],
                             arg |-> valor, erro |-> r.erro, retorno |-> None]
    /\ chamadas' = chamadas + 1
    /\ UNCHANGED <<orcamento, objeto>>

\* the expense is saved (to_dict) and read back (carregar_lancamentos)
Recarregar ==
    /\ chamada = None /\ chamadas < MaxChamadas
    /\ objeto' = CarregarLancamento(LancToDict(objeto), categorias)
    /\ chamada' = [op |-> "carregar_lancamentos", antes |-> objeto,
                   arg |-> LancToDict(objeto), erro |-> None, retorno |-> None]
    /\ chamadas' = chamadas + 1
    /\ UNCHANGED <<categorias, orcamento>>

NextDespesa == VerificarLimite \/ DefinirLimite \/ Recarregar \/ Retornar

SpecDespesa == InitDespesa /\ [][NextDespesa]_vars

\* the call that has just ended is verificar_limite_categoria
Verificou == chamada # None /\ chamada.op = "verificar_limite_categoria"

\* how many times a tag occurs in a tag list
VezesATag(tags, t) == Cardinality({i \in 1..Len(tags) : tags[i] = t})

(***************************************************************************)
(* C12.  Whatever verificar_limite_categoria calls are made on an Expense, *)
(* its tag collection holds LimitExceeded at most once and HighValue at    *)
(* most once; calling the check again with the argument of the call that   *)
(* has just ended gives the same result and leaves the tags as they are.   *)
(***************************************************************************)
C12_TagsSemRepeticao ==
    /\ VezesATag(objeto.alertas, "LIMITE_EXCEDIDO") <= 1
    /\ VezesATag(objeto.alertas, "ALTO_VALOR") <= 1
    /\ Verificou =>
          LET categoria == categorias[objeto.categoria]
          IN  /\ ExcedeLimite(objeto, categoria, chamada.arg) = chamada.retorno
              /\ AposVerificarLimite(objeto, categoria, chamada.arg).alertas
                    = objeto.alertas

\* the check has exceeded on an expense that already carried both tags
C12_Witness ==
    /\ Verificou
    /\ chamada.retorno = TRUE
    /\ TemTag(chamada.antes.alertas, "LIMITE_EXCEDIDO")
    /\ objeto.alertas = <<"ALTO_VALOR", "LIMITE_EXCEDIDO">>

(***************************************************************************)
(* C13.  verificar_limite_categoria(total) returns true exactly when the   *)
(* category has a limit and total + amount is strictly above it; it        *)
(* returns false when there is no limit or no excess, and then adds no     *)
(* tag.  The result is a function of the supplied figure, the amount and   *)
(* the category's current limit, whatever entries the budget holds.        *)
(***************************************************************************)
C13_ExcedeEstritamente ==
    Verificou =>
        LET limite == categorias[objeto.categoria].limite_mensal
            excede == /\ limite # None
                      /\ chamada.arg + chamada.antes.valor > Val(limite)
        IN  /\ chamada.retorno = excede
            /\ excede => TemTag(objeto.alertas, "LIMITE_EXCEDIDO")
            /\ ~excede => objeto.alertas = chamada.antes.alertas
            /\ [objeto EXCEPT !.alertas = <<>>]
                  = [chamada.antes EXCEPT !.alertas = <<>>]

\* the sum equals a limit that has been reassigned, while the budget holds
\* an entry of the same category: no excess, no tag
C13_Witness ==
    /\ Verificou
    /\ categorias[objeto.categoria].limite_mensal = Some(300)
    /\ chamada.arg + objeto.valor = 300
    /\ chamada.retorno = FALSE
    /\ ~TemTag(objeto.alertas, "LIMITE_EXCEDIDO")
    /\ orcamento.lancamentos # <<>>

(***************************************************************************)
(* A Categoria on its own: it is constructed, and its public setters are   *)
(* called on it in any order.                                              *)
(***************************************************************************)
NomeCurto == <<"A", " ">>

NomesInformados == {Alimentacao, AlimentacaoMaiuscula, NomeCurto}

TiposDeCategoria == {"RECEITA", "DESPESA"}

DescricaoComBrancos == <<" ", "x">>

DescricoesInformadas == {None, DescricaoComBrancos}

InitCategoria ==
    /\ categorias = CategoriasIniciais
    /\ orcamento = NovoOrcamento(<<"orc", 1>>, 12, 2024, 0).obj
    /\ chamada = None
    /\ chamadas = 0
    /\ objeto = None

\* objeto = Categoria(nome, tipo, limite_mensal, descricao)
ConstruirCategoria ==
    /\ chamada = None /\ chamadas < MaxChamadas
    /\ \E nome \in NomesInformados, tipo \in TiposDeCategoria,
          limite \in LimitesInformados, descricao \in DescricoesInformadas :
          LET r == NovaCategoria(<<"cat", 4>>, nome, tipo, limite, descricao)
          IN  /\ objeto' = IF r.erro = None THEN r.obj ELSE objeto
              /\ chamada' = [op |-> "Categoria", antes |-> objeto,
                             arg |-> [nome |-> nome, tipo |-> tipo,
                                      limite_mensal |-> limite,
                                      descricao |-> descricao],
                             erro |-> r.erro, retorno |-> r.obj]
    /\ chamadas' = chamadas + 1
    /\ UNCHANGED <<categorias, orcamento>>

\* the effect of one setter call on the object held
Atribuir(op, arg, r) ==
    /\ objeto' = r.obj
    /\ chamada' = [op |-> op, antes |-> objeto, arg |-> arg, erro |-> r.erro,
                   retorno |-> None]
    /\ chamadas' = chamadas + 1
    /\ UNCHANGED <<categorias, orcamento>>

\* objeto.nome = valor
AtribuirNome ==
    /\ chamada = None /\ chamadas < MaxChamadas /\ objeto # None
    /\ \E valor \in NomesInformados :
          Atribuir("nome", valor, DefinirNome(objeto, valor))

\* objeto.tipo = valor
AtribuirTipo ==
    /\ chamada = None /\ chamadas < MaxChamadas /\ objeto # None
    /\ \E valor \in TiposDeCategoria :
          Atribuir("tipo", valor, DefinirTipo(objeto, valor))

\* objeto.limite_mensal = valor
AtribuirLimite ==
    /\ chamada = None /\ chamadas < MaxChamadas /\ objeto # None
    /\ \E valor \in LimitesInformados :
          Atribuir("limite_mensal", valor, DefinirLimiteMensal(objeto, valor))

\* objeto.descricao = valor
AtribuirDescricao ==
    /\ chamada = None /\ chamadas < MaxChamadas /\ objeto # None
    /\ \E valor \in DescricoesInformadas :
          Atribuir("descricao", valor, DefinirDescricao(objeto, valor))

NextCategoria ==
    \/ ConstruirCategoria
    \/ AtribuirNome
    \/ AtribuirTipo
    \/ AtribuirLimite
    \/ AtribuirDescricao
    \/ Retornar

SpecCategoria == InitCategoria /\ [][NextCategoria]_vars

(***************************************************************************)
(* C14.  A Category of kind Income never carries a limit: in every state   *)
(* reached by construction followed by any sequence of the setters (name,  *)
(* kind, monthly limit, description), kind = Income implies that the       *)
(* monthly limit is absent; constructing or re-limiting an Income category *)
(* with a limit fails.                                                     *)
(***************************************************************************)
C14_ReceitaSemLimite ==
    /\ objeto # None =>
          (objeto.tipo = "RECEITA" => objeto.limite_mensal = None)
    /\ ( /\ chamada # None
         /\ chamada.op = "Categoria"
         /\ chamada.arg.tipo = "RECEITA"
         /\ chamada.arg.limite_mensal # None ) => chamada.erro # None
    /\ ( /\ chamada # None
         /\ chamada.op = "limite_mensal"
         /\ chamada.antes.tipo = "RECEITA"
         /\ chamada.arg # None ) => chamada.erro # None

(***************************************************************************)
(* Entries from construction on: a Receita or a Despesa is constructed     *)
(* from whatever the caller supplies, handed to the budget, and the valor  *)
(* and categoria setters are called on the entries the budget holds.       *)
(***************************************************************************)
ValoresInformados == {-50, 0, 200, 700}

DescricoesDeLancamento == {Cafe, Pao, None}

InitLancamento ==
    /\ categorias = CategoriasIniciais
    /\ orcamento = NovoOrcamento(<<"orc", 1>>, 12, 2024, 0).obj
    /\ chamada = None
    /\ chamadas = 0
    /\ objeto = None

\* objeto = Receita(...) or Despesa(...)
ConstruirLancamento ==
    /\ chamada = None /\ chamadas < MaxChamadas
    /\ \E classe \in TiposDeCategoria, valor \in ValoresInformados,
          c \in DOMAIN categorias, descricao \in DescricoesDeLancamento,
          id \in IdsPossiveis(orcamento) :
          LET r == NovoLancamento(classe, valor, categorias[c], Data(2024, 12, 5),
                                  descricao, "PIX", id)
          IN  /\ objeto' = IF r.erro = None THEN r.obj ELSE objeto
              /\ chamada' = [op |-> "Lancamento", antes |-> objeto,
                             arg |-> [classe |-> classe, valor |-> valor,
                                      categoria |-> c, descricao |-> descricao],
                             erro |-> r.erro, retorno |-> r.obj]
    /\ chamadas' = chamadas + 1
    /\ UNCHANGED <<categorias, orcamento>>

\* orcamento.adicionar_lancamento(objeto)
AdicionarConstruido ==
    /\ chamada = None /\ chamadas < MaxChamadas /\ objeto # None
    /\ LET r == AdicionarLancamento(orcamento, categorias, objeto,
                                    Len(orcamento.alertas) + 1)
       IN  /\ orcamento' = r.orc
           /\ chamada' = [op |-> "adicionar_lancamento", antes |-> orcamento,
                          arg |-> objeto, lancamento |-> r.lancamento,
                          erro |-> r.erro, retorno |-> r.retorno]
    /\ chamadas' = chamadas + 1
    /\ UNCHANGED <<categorias, objeto>>

\* the effect of one setter call on the i-th entry the budget holds
AtribuirAoLancamento(i, op, arg, r) ==
    /\ orcamento' = [orcamento EXCEPT !.lancamentos[i] = r.obj]
    /\ chamada' = [op |-> op, antes |-> orcamento.lancamentos[i], arg |-> arg,
                   erro |-> r.erro, retorno |-> None]
    /\ chamadas' = chamadas + 1
    /\ UNCHANGED <<categorias, objeto>>

\* lancamento.valor = valor
AtribuirValor ==
    /\ chamada = None /\ chamadas < MaxChamadas
    /\ \E i \in 1..Len(orcamento.lancamentos), valor \in ValoresInformados :
          AtribuirAoLancamento(i, "valor", valor,
                               DefinirValor(orcamento.lancamentos[i], valor))

\* lancamento.categoria = categoria
AtribuirCategoria ==
    /\ chamada = None /\ chamadas < MaxChamadas
    /\ \E i \in 1..Len(orcamento.lancamentos), c \in DOMAIN categorias :
          AtribuirAoLancamento(i, "categoria", c,
                               DefinirCategoria(orcamento.lancamentos[i],
                                                categorias[c]))

NextLancamento ==
    \/ ConstruirLancamento
    \/ AdicionarConstruido
    \/ AtribuirValor
    \/ AtribuirCategoria
    \/ Retornar

SpecLancamento == InitLancamento /\ [][NextLancamento]_vars

(***************************************************************************)
(* C15.  Constructing an entry fails whenever the amount is zero or        *)
(* negative and whenever the kind of the category differs from the variant *)
(* (Income entry with Expense category, Expense entry with Income          *)
(* category); so every entry a budget holds has a strictly positive amount *)
(* and a category of the kind of its variant.                              *)
(***************************************************************************)
Construiu == chamada # None /\ chamada.op = "Lancamento"

Recarregou == chamada # None /\ chamada.op = "carregar_lancamentos"

C16_IdaEVoltaDoLancamento ==
    Recarregou => objeto = chamada.antes

(***************************************************************************)
(* Records: a Categoria or an Alerta is constructed, an alert may be       *)
(* marked as read, and the object is written with to_dict and rebuilt with *)
(* from_dict.                                                              *)
(***************************************************************************)
Aviso == <<"A", "v", "i", "s", "o">>

AvisoComBrancos == <<" ", "A", "v", "i", "s", "o", " ">>

SoBrancos == <<" ", " ">>

MensagensInformadas == {Aviso, AvisoComBrancos, SoBrancos, None}

\* the clock: one instant on a whole second, one with microseconds
Instantes ==
    { DataHora(Data(2024, 12, 5), 9, 30, 0, 0),
      DataHora(Data(2024, 12, 31), 23, 59, 58, 1500) }

EhCategoria(o) == "nome" \in DOMAIN o

EhAlerta(o) == "mensagem" \in DOMAIN o

\* objeto = Alerta(tipo, mensagem, lancamento_id=..., mes_ano=..., lido=...)
ConstruirAlerta ==
    /\ chamada = None /\ chamadas < MaxChamadas
    /\ \E tipo \in {"ALTO_VALOR", "DEFICIT_ORCAMENTARIO"},
          mensagem \in MensagensInformadas,
          ligacao \in { <<<<"lanc", 1>>, None, None>>,
                        <<None, <<"cat", 1>>, None>>,
                        <<None, None, <<12, 2024>>>> },
          lido \in BOOLEAN, agora \in Instantes :
          LET r == NovoAlerta(tipo, mensagem, ligacao[1], ligacao[2], ligacao[3],
                              <<"alerta", 1>>, None, lido, agora)
          IN  /\ objeto' = IF r.erro = None THEN r.obj ELSE objeto
              /\ chamada' = [op |-> "Alerta", antes |-> objeto,
                             arg |-> [tipo |-> tipo, mensagem |-> mensagem],
                             erro |-> r.erro, retorno |-> r.obj]
    /\ chamadas' = chamadas + 1
    /\ UNCHANGED <<categorias, orcamento>>

\* objeto.marcar_como_lido()
MarcarLido ==
    /\ chamada = None /\ chamadas < MaxChamadas
    /\ objeto # None /\ EhAlerta(objeto)
    /\ objeto' = MarcarComoLido(objeto)
    /\ chamada' = [op |-> "marcar_como_lido", antes |-> objeto, arg |-> None,
                   erro |-> None, retorno |-> None]
    /\ chamadas' = chamadas + 1
    /\ UNCHANGED <<categorias, orcamento>>

\* type(objeto).from_dict(objeto.to_dict()), kept beside the original
IdaEVolta ==
    /\ chamada = None /\ chamadas < MaxChamadas
    /\ objeto # None
    /\ \E agora \in Instantes :
          LET r == IF EhCategoria(objeto)
                   THEN CategoriaFromDict(CategoriaToDict(objeto))
                   ELSE AlertaFromDict(AlertaToDict(objeto), agora)
          IN  chamada' = [op |-> "from_dict", antes |-> objeto,
                          arg |-> IF EhCategoria(objeto)
                                  THEN CategoriaToDict(objeto)
                                  ELSE AlertaToDict(objeto),
                          erro |-> r.erro, retorno |-> r.obj]
    /\ chamadas' = chamadas + 1
    /\ UNCHANGED <<categorias, orcamento, objeto>>

NextRegistro ==
    \/ ConstruirCategoria
    \/ ConstruirAlerta
    \/ MarcarLido
    \/ IdaEVolta
    \/ Retornar

SpecRegistro == InitCategoria /\ [][NextRegistro]_vars

(***************************************************************************)
(* C17.  For every valid Category and every Alert (its message non-empty,  *)
(* as the attribute requires), from_dict(to_dict(x)) reproduces all fields *)
(* of x: for a Category id, name, kind, limit and description; for an      *)
(* Alert id, kind, message, creation timestamp, linked entry id, linked    *)
(* category id, linked (month, year) and read flag.                        *)
(***************************************************************************)
FezIdaEVolta == chamada # None /\ chamada.op = "from_dict"

Transporte == <<"T", "a", "x", "i">>

Salario == <<"P", "a", "y">>

CategoriasDoRelatorio ==
    LET c1 == NovaCategoria(<<"cat", 1>>, Alimentacao, "DESPESA", Some(500), None).obj
        c2 == NovaCategoria(<<"cat", 2>>, Transporte, "DESPESA", Some(300), None).obj
        c3 == NovaCategoria(<<"cat", 3>>, Salario, "RECEITA", None, None).obj
        c4 == NovaCategoria(<<"cat", 4>>, AlimentacaoMaiuscula, "DESPESA", None, None).obj
    IN  (c1.id :> c1) @@ (c2.id :> c2) @@ (c3.id :> c3) @@ (c4.id :> c4)

MovimentosDoRelatorio ==
    { <<"DESPESA", <<"cat", 1>>, 300, "DEBITO">>,
      <<"DESPESA", <<"cat", 2>>, 100, "PIX">>,
      <<"DESPESA", <<"cat", 4>>, 200, "PIX">>,
      <<"DESPESA", <<"cat", 1>>, 100, "CREDITO">>,
      <<"RECEITA", <<"cat", 3>>, 1000, "PIX">> }

OcasioesDoRelatorio ==
    { <<Data(2024, 12, 5), Cafe>>, <<Data(2024, 12, 10), Cafe>>,
      <<Data(2024, 12, 10), Pao>> }

InitRelatorio ==
    /\ categorias = CategoriasDoRelatorio
    /\ orcamento = NovoOrcamento(<<"orc", 1>>, 12, 2024, 5000).obj
    /\ chamada = None
    /\ chamadas = 0
    /\ objeto = None

\* orcamento.adicionar_lancamento(Receita(...) or Despesa(...))
AdicionarAoRelatorio ==
    /\ chamada = None /\ chamadas < MaxChamadas
    /\ \E m \in MovimentosDoRelatorio, o \in OcasioesDoRelatorio,
          id \in IdsPossiveis(orcamento) :
          LET c == NovoLancamento(m[1], m[3], categorias[m[2]], o[1], o[2], m[4], id)
              r == AdicionarLancamento(orcamento, categorias, c.obj,
                                       Len(orcamento.alertas) + 1)
          IN  /\ c.erro = None
              /\ orcamento' = r.orc
              /\ chamada' = [op |-> "adicionar_lancamento", antes |-> orcamento,
                             arg |-> c.obj, lancamento |-> r.lancamento,
                             erro |-> r.erro, retorno |-> r.retorno]
    /\ chamadas' = chamadas + 1
    /\ UNCHANGED <<categorias, objeto>>

NextRelatorio == AdicionarAoRelatorio \/ Remover \/ Retornar

SpecRelatorio == InitRelatorio /\ [][NextRelatorio]_vars

(***************************************************************************)
(* C18.  percentual_por_categoria gives, for each name of an expense       *)
(* category, the expense total of that name divided by the total expense   *)
(* of the budget, times 100, so the percentages add up to 100 (Food 300    *)
(* and Transport 100 give 75 and 25); with a total expense of zero it      *)
(* gives the empty mapping.                                                *)
(***************************************************************************)
\* the expenses held, and the sum of those under one category name
C18_Despesas ==
    {i \in 1..Len(orcamento.lancamentos) : orcamento.lancamentos[i].tipo = "DESPESA"}

RECURSIVE C18_Soma(_)
C18_Soma(indices) ==
    IF indices = {} THEN 0
    ELSE LET i == CHOOSE k \in indices : TRUE
         IN  orcamento.lancamentos[i].valor + C18_Soma(indices \ {i})

C18_DoNome(nome) ==
    {i \in C18_Despesas : categorias[orcamento.lancamentos[i].categoria].nome = nome}

\* the sum of the percentages, each brought to the denominator total
RECURSIVE C18_SomaDosPercentuais(_, _, _)
C18_SomaDosPercentuais(p, nomes, total) ==
    IF nomes = {} THEN 0
    ELSE LET n == CHOOSE k \in nomes : TRUE
         IN  p[n].num * (total \div p[n].den)
                + C18_SomaDosPercentuais(p, nomes \ {n}, total)

C18_Percentuais ==
    LET p == PercentualPorCategoria(orcamento, categorias)
        total == C18_Soma(C18_Despesas)
        nomes == {categorias[orcamento.lancamentos[i].categoria].nome : i \in C18_Despesas}
    IN  /\ DOMAIN p = nomes
        /\ total = 0 => p = <<>>
        /\ \A n \in nomes :
              /\ total % p[n].den = 0
              /\ p[n].num * total = C18_Soma(C18_DoNome(n)) * 100 * p[n].den
        /\ total # 0 => C18_SomaDosPercentuais(p, nomes, total) = 100 * total
        /\ ( /\ Cardinality(C18_Despesas) = 2
             /\ C18_Soma(C18_DoNome(Alimentacao)) = 300
             /\ C18_Soma(C18_DoNome(Transporte)) = 100 ) =>
               /\ p[Alimentacao] = [num |-> 75, den |-> 1]
               /\ p[Transporte] = [num |-> 25, den |-> 1]

\* Food 300 and Transport 100, beside an income: 75 and 25
C18_Witness ==
    /\ Len(orcamento.lancamentos) = 3
    /\ Cardinality(C18_Despesas) = 2
    /\ C18_Soma(C18_DoNome(Alimentacao)) = 300
    /\ C18_Soma(C18_DoNome(Transporte)) = 100
    /\ PercentualPorCategoria(orcamento, categorias)
          = (Alimentacao :> [num |-> 75, den |-> 1])
               @@ (Transporte :> [num |-> 25, den |-> 1])

(***************************************************************************)
(* C19.  In every reachable state of the budget the aggregates agree with  *)
(* the entries it holds: total income is the sum of the held Income        *)
(* amounts, total expense the sum of the held Expense amounts, balance =   *)
(* total income - total expense, and the deficit flag is true exactly when *)
(* the balance is below 0; a removed entry is no longer counted.           *)
(***************************************************************************)
RECURSIVE SomaDosIndices(_, _)
SomaDosIndices(lancamentos, indices) ==
    IF indices = {} THEN 0
    ELSE LET i == CHOOSE k \in indices : TRUE
         IN  lancamentos[i].valor + SomaDosIndices(lancamentos, indices \ {i})

DoTipo(lancamentos, tipo) ==
    {i \in 1..Len(lancamentos) : lancamentos[i].tipo = tipo}

C19_AgregadosAtuais ==
    LET receitas == SomaDosIndices(orcamento.lancamentos,
                                   DoTipo(orcamento.lancamentos, "RECEITA"))
        despesas == SomaDosIndices(orcamento.lancamentos,
                                   DoTipo(orcamento.lancamentos, "DESPESA"))
    IN  /\ TotalReceitas(orcamento) = receitas
        /\ TotalDespesas(orcamento) = despesas
        /\ Saldo(orcamento) = receitas - despesas
        /\ TemDeficit(orcamento) <=> (receitas - despesas < 0)
        /\ (Removeu /\ chamada.retorno # None) =>
              LET antes == chamada.antes.lancamentos
                  r == chamada.retorno
              IN  /\ receitas = SomaDosIndices(antes, DoTipo(antes, "RECEITA"))
                                  - (IF r.tipo = "RECEITA" THEN r.valor ELSE 0)
                  /\ despesas = SomaDosIndices(antes, DoTipo(antes, "DESPESA"))
                                  - (IF r.tipo = "DESPESA" THEN r.valor ELSE 0)

\* the only income has been removed from beside an expense: the total
\* income is 0 again and the deficit flag has turned true
C19_Witness ==
    /\ Removeu
    /\ chamada.retorno # None
    /\ chamada.retorno.tipo = "RECEITA"
    /\ TotalReceitas(chamada.antes) = chamada.retorno.valor
    /\ ~TemDeficit(chamada.antes)
    /\ TotalReceitas(orcamento) = 0
    /\ TotalDespesas(orcamento) > 0
    /\ TemDeficit(orcamento)

(***************************************************************************)
(* C20.  saldo_por_dia maps each date that has at least one held entry to  *)
(* the balance accumulated over all held entries dated on or before it     *)
(* (income adds, expense subtracts); several entries of one date give one  *)
(* mapping entry, holding the balance after the last of them, and the      *)
(* value at the latest date is the balance of the budget.                  *)
(***************************************************************************)
C20_Datas ==
    {orcamento.lancamentos[i].data : i \in 1..Len(orcamento.lancamentos)}

\* the indices of the entries of one variant dated on or before d
C20_Ate(d, tipo) ==
    {i \in DoTipo(orcamento.lancamentos, tipo) :
        \/ orcamento.lancamentos[i].data = d
        \/ DataLt(orcamento.lancamentos[i].data, d)}

C20_SaldoPorDia ==
    LET saldos == SaldoPorDia(orcamento)
    IN  /\ DOMAIN saldos = C20_Datas
        /\ \A d \in C20_Datas :
              saldos[d] = SomaDosIndices(orcamento.lancamentos, C20_Ate(d, "RECEITA"))
                            - SomaDosIndices(orcamento.lancamentos, C20_Ate(d, "DESPESA"))
        /\ \A d \in C20_Datas :
              (\A e \in C20_Datas : e = d \/ DataLt(e, d)) =>
                 saldos[d] = SomaDosIndices(orcamento.lancamentos,
                                            DoTipo(orcamento.lancamentos, "RECEITA"))
                               - SomaDosIndices(orcamento.lancamentos,
                                                DoTipo(orcamento.lancamentos, "DESPESA"))

\* an income on the 5th and two expenses on the 10th: two mapping entries,
\* the second holding the balance of the budget
C20_Witness ==
    /\ Len(orcamento.lancamentos) = 3
    /\ orcamento.lancamentos[1].tipo = "RECEITA"
    /\ orcamento.lancamentos[1].data = Data(2024, 12, 5)
    /\ orcamento.lancamentos[2].tipo = "DESPESA"
    /\ orcamento.lancamentos[2].data = Data(2024, 12, 10)
    /\ orcamento.lancamentos[3].tipo = "DESPESA"
    /\ orcamento.lancamentos[3].data = Data(2024, 12, 10)
    /\ DOMAIN SaldoPorDia(orcamento) = {Data(2024, 12, 5), Data(2024, 12, 10)}
    /\ SaldoPorDia(orcamento)[Data(2024, 12, 5)] = 1000
    /\ SaldoPorDia(orcamento)[Data(2024, 12, 10)] = Saldo(orcamento)
    /\ Saldo(orcamento) < 1000 - orcamento.lancamentos[2].valor

(***************************************************************************)
(* C21.  despesas_por_categoria and despesas_por_forma_pagamento each      *)
(* partition the held expenses: the value of a key is the sum of the       *)
(* Expense amounts with that category name (that payment method), Income   *)
(* entries count in neither, and the values of each mapping add up to the  *)
(* total expense of the budget.                                            *)
(***************************************************************************)
\* the sum of the values of a mapping
RECURSIVE SomaDoMapa(_, _)
SomaDoMapa(mapa, chaves) ==
    IF chaves = {} THEN 0
    ELSE LET k == CHOOSE c \in chaves : TRUE
         IN  mapa[k] + SomaDoMapa(mapa, chaves \ {k})

C21_DaForma(forma) ==
    {i \in C18_Despesas : orcamento.lancamentos[i].forma_pagamento = forma}

C21_Particoes ==
    LET por_nome == DespesasPorCategoria(orcamento, categorias)
        por_forma == DespesasPorFormaPagamento(orcamento)
        total == C18_Soma(C18_Despesas)
    IN  /\ DOMAIN por_nome
              = {categorias[orcamento.lancamentos[i].categoria].nome : i \in C18_Despesas}
        /\ \A n \in DOMAIN por_nome : por_nome[n] = C18_Soma(C18_DoNome(n))
        /\ DOMAIN por_forma
              = {orcamento.lancamentos[i].forma_pagamento : i \in C18_Despesas}
        /\ \A f \in DOMAIN por_forma : por_forma[f] = C18_Soma(C21_DaForma(f))
        /\ SomaDoMapa(por_nome, DOMAIN por_nome) = total
        /\ SomaDoMapa(por_forma, DOMAIN por_forma) = total
        /\ TotalDespesas(orcamento) = total

\* an income paid by PIX beside two expenses, one of them by PIX, under two
\* names: the income is in neither mapping
C21_Witness ==
    /\ Len(orcamento.lancamentos) = 3
    /\ Cardinality(C18_Despesas) = 2
    /\ \E i \in 1..3 : /\ orcamento.lancamentos[i].tipo = "RECEITA"
                       /\ orcamento.lancamentos[i].forma_pagamento = "PIX"
    /\ DespesasPorFormaPagamento(orcamento) = ("PIX" :> 100) @@ ("DEBITO" :> 300)
    /\ DespesasPorCategoria(orcamento, categorias)
          = (Alimentacao :> 300) @@ (Transporte :> 100)

(***************************************************************************)
(* C22.  Planned income affects only the available-balance projection      *)
(* (planned income minus total expense).  Setting it to a non-negative     *)
(* value leaves the entry collection, the alert log, the balance and the   *)
(* deficit flag as they were; what adicionar_lancamento returns and logs   *)
(* is the same whatever the planned income; setting a negative value fails *)
(* with a validation error and leaves the previous planned income.         *)
(***************************************************************************)
DefiniuPrevistas == chamada # None /\ chamada.op = "receitas_previstas"

\* the outcome of the insertion that has just ended, had the planned income
\* been p
C22_ComPrevistas(p) ==
    AdicionarLancamento([chamada.antes EXCEPT !.receitas_previstas = p], categorias,
                        chamada.arg, Len(chamada.antes.alertas) + 1)

C22_SoOSaldoDisponivel ==
    /\ (DefiniuPrevistas /\ chamada.arg >= 0) =>
          /\ chamada.erro = None
          /\ orcamento = [chamada.antes EXCEPT !.receitas_previstas = chamada.arg]
          /\ NadaMudou
          /\ Saldo(orcamento) = Saldo(chamada.antes)
          /\ TemDeficit(orcamento) = TemDeficit(chamada.antes)
          /\ SaldoDisponivel(orcamento) = chamada.arg - TotalDespesas(chamada.antes)
    /\ (DefiniuPrevistas /\ chamada.arg < 0) =>
          /\ chamada.erro # None
          /\ chamada.erro.classe = "ValueError"
          /\ orcamento = chamada.antes
    /\ Adicionou =>
          \A p \in {0, 100000} :
              LET r == C22_ComPrevistas(p)
              IN  /\ r.erro = chamada.erro
                  /\ r.retorno = chamada.retorno
                  /\ r.orc.lancamentos = orcamento.lancamentos
                  /\ r.orc.alertas = orcamento.alertas

\* a budget in deficit, holding its deficit alert, is given a planned income
\* that covers the expenses: the projection turns positive, the flag stays
C22_Witness ==
    /\ DefiniuPrevistas
    /\ chamada.arg = 5000
    /\ chamada.antes.receitas_previstas = 0
    /\ DeficitsDoMes(orcamento) # {}
    /\ TemDeficit(orcamento)
    /\ SaldoDisponivel(orcamento) > 0

(***************************************************************************)
(* C29.  LimitExceeded alerts are not deduplicated: every successful       *)
(* insertion of an Expense that leaves the total of its category above the *)
(* limit appends one new LimitExceeded alert to the log, whatever the log  *)
(* already holds, and an insertion that does not appends none; the total   *)
(* is that of the entries held at the time of the call, so entries removed *)
(* before it no longer count.                                              *)
(***************************************************************************)
C29_AcimaDoLimite ==
    LET cat == categorias[chamada.arg.categoria]
    IN  /\ chamada.arg.tipo = "DESPESA"
        /\ cat.limite_mensal # None
        /\ TotalPorCategoria(orcamento, categorias, cat) > Val(cat.limite_mensal)

C29_UmAlertaPorInsercao ==
    AdicionouComSucesso =>
        /\ Quantos(orcamento.alertas, "LIMITE_EXCEDIDO")
              = Quantos(chamada.antes.alertas, "LIMITE_EXCEDIDO")
                   + (IF C29_AcimaDoLimite THEN 1 ELSE 0)
        /\ Quantos(chamada.retorno, "LIMITE_EXCEDIDO")
              = (IF C29_AcimaDoLimite THEN 1 ELSE 0)
        /\ C29_AcimaDoLimite =>
              \E i \in Posicoes(orcamento.alertas, "LIMITE_EXCEDIDO") :
                  /\ i > Len(chamada.antes.alertas)
                  /\ orcamento.alertas[i].mensagem.total
                        = TotalPorCategoria(orcamento, categorias,
                                            categorias[chamada.arg.categoria])

\* three insertions in a row above the limit of the category: three
\* LimitExceeded alerts in the log, and one BudgetDeficit alert
C29_Witness ==
    /\ AdicionouComSucesso
    /\ Len(orcamento.lancamentos) = 3
    /\ \A i \in 1..3 : orcamento.lancamentos[i].categoria = <<"cat", 1>>
    /\ Quantos(orcamento.alertas, "LIMITE_EXCEDIDO") = 3
    /\ Quantos(orcamento.alertas, "DEFICIT_ORCAMENTARIO") = 1

(***************************************************************************)
(* C30.  For every entry e accepted by adicionar_lancamento,               *)
(* remover_lancamento(e.id) right afterwards gives back the entry          *)
(* collection of before the insertion, same entries in the same order, and *)
(* with it every derived aggregate; the alert log keeps the alerts the     *)
(* insertion appended, and differs in nothing else.                        *)
(***************************************************************************)
C30_Desfeito == RemoverLancamento(orcamento, chamada.arg.id)

C30_RemoverDesfazAdicionar ==
    AdicionouComSucesso =>
        LET d == C30_Desfeito
        IN  /\ d.retorno = chamada.lancamento
            /\ d.orc.lancamentos = chamada.antes.lancamentos
            /\ d.orc.alertas = chamada.antes.alertas \o chamada.retorno
            /\ d.orc = [chamada.antes EXCEPT !.alertas = d.orc.alertas]
            /\ TotalReceitas(d.orc) = TotalReceitas(chamada.antes)
            /\ TotalDespesas(d.orc) = TotalDespesas(chamada.antes)
            /\ Saldo(d.orc) = Saldo(chamada.antes)
            /\ TemDeficit(d.orc) = TemDeficit(chamada.antes)
            /\ DespesasPorCategoria(d.orc, categorias)
                  = DespesasPorCategoria(chamada.antes, categorias)
            /\ SaldoPorDia(d.orc) = SaldoPorDia(chamada.antes)

\* the accepted entry was sorted between the two entries held, and the
\* insertion appended alerts: the removal takes it out of the middle
C30_Witness ==
    /\ AdicionouComSucesso
    /\ Len(chamada.antes.lancamentos) = 2
    /\ orcamento.lancamentos[2].id = chamada.arg.id
    /\ chamada.retorno # <<>>
    /\ C30_Desfeito.orc.lancamentos = chamada.antes.lancamentos
    /\ C30_Desfeito.orc.alertas # chamada.antes.alertas

(***************************************************************************)
(* GerenciadorDados, the facade.  It is the record                         *)
(*   [categorias, lancamentos, orcamentos, alertas]                        *)
(* of its four lists: the identifiers of the Categoria objects it lists,   *)
(* the entries, the budgets and the alerts.  The Categoria objects are in  *)
(* cats, by identifier: an entry keeps the reference to its category       *)
(* whatever the list holds.  An entry, once added, is not modified, so the *)
(* global list and the budget hold the same value of it.                   *)
(***************************************************************************)
\* GerenciadorDados.buscar_categoria: the identifier, or None
BuscarCategoria(f, categoria_id) ==
    IF \E i \in 1..Len(f.categorias) : f.categorias[i] = categoria_id
    THEN categoria_id
    ELSE None

\* the duplicate test of criar_categoria and of editar_categoria: a listed
\* category, other than exceto, whose name in lower case is the requested
\* name in lower case, and of the kind
NomeEmUso(f, cats, nome, tipo, exceto) ==
    \E i \in 1..Len(f.categorias) :
        /\ f.categorias[i] # exceto
        /\ lower(cats[f.categorias[i]].nome) = lower(nome)
        /\ cats[f.categorias[i]].tipo = tipo

\* GerenciadorDados.buscar_categoria_por_nome: the first listed category
\* with the name (up to case) and the kind, or None
BuscarCategoriaPorNome(f, cats, nome, tipo) ==
    LET achadas == {i \in 1..Len(f.categorias) :
                       /\ lower(cats[f.categorias[i]].nome) = lower(nome)
                       /\ cats[f.categorias[i]].tipo = tipo}
    IN  IF achadas = {} THEN None
        ELSE f.categorias[CHOOSE i \in achadas : \A j \in achadas : i <= j]

\* GerenciadorDados.criar_categoria: [erro, f, cats, retorno]; id is the
\* uuid4 of the new Categoria
CriarCategoria(f, cats, nome, tipo, limite_mensal, descricao, id) ==
    LET c == NovaCategoria(id, nome, tipo, limite_mensal, descricao)
    IN  IF NomeEmUso(f, cats, nome, tipo, None)
        THEN [erro |-> ValueError("Categoria ja existe"), f |-> f, cats |-> cats,
              retorno |-> None]
        ELSE IF c.erro # None
        THEN [erro |-> c.erro, f |-> f, cats |-> cats, retorno |-> None]
        ELSE [erro |-> None, f |-> [f EXCEPT !.categorias = Append(@, id)],
              cats |-> (id :> c.obj) @@ cats, retorno |-> id]

\* GerenciadorDados.editar_categoria: [erro, f, cats, retorno].  The fields
\* are assigned one after the other, each through its setter; the setter
\* that raises ends the call, the fields assigned before it stay assigned.
\* limite_mensal is None or Some(number).
EditarCategoria(f, cats, categoria_id, nome, limite_mensal, descricao) ==
    IF BuscarCategoria(f, categoria_id) = None
    THEN [erro |-> ValueError("Categoria nao encontrada"), f |-> f, cats |-> cats,
          retorno |-> None]
    ELSE LET categoria == cats[categoria_id]
             colide == nome # <<>> /\ NomeEmUso(f, cats, nome, categoria.tipo, categoria_id)
             n == IF nome # <<>> THEN DefinirNome(categoria, nome)
                  ELSE [erro |-> None, obj |-> categoria]
             l == IF limite_mensal # None THEN DefinirLimiteMensal(n.obj, limite_mensal)
                  ELSE [erro |-> None, obj |-> n.obj]
             d == IF descricao # None THEN DefinirDescricao(l.obj, descricao)
                  ELSE [erro |-> None, obj |-> l.obj]
             erro == IF colide THEN ValueError("Categoria ja existe neste tipo")
                     ELSE IF n.erro # None THEN n.erro
                     ELSE IF l.erro # None THEN l.erro ELSE d.erro
             obj == IF colide \/ n.erro # None THEN categoria
                    ELSE IF l.erro # None THEN n.obj ELSE d.obj
         IN  [erro |-> erro, f |-> f, cats |-> [cats EXCEPT ![categoria_id] = obj],
              retorno |-> IF erro = None THEN categoria_id ELSE None]

\* the list without the first occurrence of an identifier
RECURSIVE SemOPrimeiro(_, _)
SemOPrimeiro(ids, id) ==
    IF ids = <<>> THEN <<>>
    ELSE IF Head(ids) = id THEN Tail(ids)
    ELSE <<Head(ids)>> \o SemOPrimeiro(Tail(ids), id)

\* excluir_categoria without the test of the linked entries
ExcluirCategoria_SemVerificar(f, categoria_id) ==
    [erro |-> None, f |-> [f EXCEPT !.categorias = SemOPrimeiro(@, categoria_id)],
     retorno |-> BuscarCategoria(f, categoria_id)]

\* GerenciadorDados.excluir_categoria: [erro, f, retorno]
ExcluirCategoria(f, categoria_id) ==
    IF \E i \in 1..Len(f.lancamentos) : f.lancamentos[i].categoria = categoria_id
    THEN [erro |-> ValueError("Categoria possui lancamentos vinculados"), f |-> f,
          retorno |-> None]
    ELSE [erro |-> None, f |-> [f EXCEPT !.categorias = SemOPrimeiro(@, categoria_id)],
          retorno |-> BuscarCategoria(f, categoria_id)]

\* OrcamentoMensal.__lt__
OrcLt(a, b) == IF a.ano # b.ano THEN a.ano < b.ano ELSE a.mes < b.mes

\* self._orcamentos.sort(), the list being sorted but for its last element
RECURSIVE InserirOrcamento(_, _)
InserirOrcamento(ordenados, orc) ==
    IF ordenados = <<>> THEN <<orc>>
    ELSE IF OrcLt(orc, Head(ordenados)) THEN <<orc>> \o ordenados
    ELSE <<Head(ordenados)>> \o InserirOrcamento(Tail(ordenados), orc)

\* the position of the budget of a (month, year) in the list, 0 if none
IndiceDoOrcamento(orcamentos, mes, ano) ==
    LET achados == {i \in 1..Len(orcamentos) :
                       orcamentos[i].mes = mes /\ orcamentos[i].ano = ano}
    IN  IF achados = {} THEN 0 ELSE CHOOSE i \in achados : \A j \in achados : i <= j

\* _obter_ou_criar_orcamento appending a budget at every call
ObterOuCriarOrcamento_SempreCria(f, mes, ano, id) ==
    LET novo == NovoOrcamento(id, mes, ano, 0)
        lista == InserirOrcamento(f.orcamentos, novo.obj)
    IN  IF novo.erro # None
        THEN [erro |-> novo.erro, f |-> f, indice |-> 0]
        ELSE [erro |-> None, f |-> [f EXCEPT !.orcamentos = lista],
              indice |-> CHOOSE i \in 1..Len(lista) : lista[i].id = id]

\* GerenciadorDados._obter_ou_criar_orcamento: [erro, f, indice]; id is the
\* uuid4 of the budget, if one is constructed
ObterOuCriarOrcamento(f, mes, ano, id) ==
    IF IndiceDoOrcamento(f.orcamentos, mes, ano) # 0
    THEN [erro |-> None, f |-> f, indice |-> IndiceDoOrcamento(f.orcamentos, mes, ano)]
    ELSE LET novo == NovoOrcamento(id, mes, ano, 0)
             lista == InserirOrcamento(f.orcamentos, novo.obj)
         IN  IF novo.erro # None
             THEN [erro |-> novo.erro, f |-> f, indice |-> 0]
             ELSE [erro |-> None, f |-> [f EXCEPT !.orcamentos = lista],
                   indice |-> CHOOSE i \in 1..Len(lista) : lista[i].id = id]

\* the insertion that does not update the global lists
AdicionarMovimento_SoNoOrcamento(f, cats, classe, valor, categoria_nome, data, descricao, forma_pagamento, id, orc_id) ==
    LET categoria_id == BuscarCategoriaPorNome(f, cats, categoria_nome, classe)
        c == NovoLancamento(classe, valor, cats[categoria_id], data, descricao,
                            forma_pagamento, id)
        o == ObterOuCriarOrcamento(f, data.month, data.year, orc_id)
        r == AdicionarLancamento(o.f.orcamentos[o.indice], cats, c.obj,
                                 Len(f.alertas) + 1)
    IN  IF categoria_id = None
        THEN [erro |-> ValueError("Categoria nao encontrada"), f |-> f,
              retorno |-> None, alertas |-> <<>>]
        ELSE IF c.erro # None
        THEN [erro |-> c.erro, f |-> f, retorno |-> None, alertas |-> <<>>]
        ELSE IF r.erro # None
        THEN [erro |-> r.erro, f |-> o.f, retorno |-> None, alertas |-> <<>>]
        ELSE [erro |-> None,
              f |-> [o.f EXCEPT !.orcamentos[o.indice] = r.orc],
              retorno |-> r.lancamento, alertas |-> r.retorno]

\* GerenciadorDados.adicionar_receita (classe "RECEITA") and
\* adicionar_despesa (classe "DESPESA"): [erro, f, retorno, alertas].  id
\* and orc_id are the uuid4 of the entry and of the budget, if constructed;
\* the alerts are numbered after those of the global list.
AdicionarMovimento(f, cats, classe, valor, categoria_nome, data, descricao, forma_pagamento, id, orc_id) ==
    LET categoria_id == BuscarCategoriaPorNome(f, cats, categoria_nome, classe)
        c == NovoLancamento(classe, valor, cats[categoria_id], data, descricao,
                            forma_pagamento, id)
        o == ObterOuCriarOrcamento(f, data.month, data.year, orc_id)
        r == AdicionarLancamento(o.f.orcamentos[o.indice], cats, c.obj,
                                 Len(f.alertas) + 1)
    IN  IF categoria_id = None
        THEN [erro |-> ValueError("Categoria nao encontrada"), f |-> f,
              retorno |-> None, alertas |-> <<>>]
        ELSE IF c.erro # None
        THEN [erro |-> c.erro, f |-> f, retorno |-> None, alertas |-> <<>>]
        ELSE IF r.erro # None
        THEN [erro |-> r.erro, f |-> o.f, retorno |-> None, alertas |-> <<>>]
        ELSE [erro |-> None,
              f |-> [o.f EXCEPT !.orcamentos[o.indice] = r.orc,
                                !.lancamentos = Append(@, r.lancamento),
                                !.alertas = @ \o r.retorno],
              retorno |-> r.lancamento, alertas |-> r.retorno]

\* GerenciadorDados.excluir_lancamento: [f, retorno]
ExcluirLancamento(f, lancamento_id) ==
    IF \E i \in 1..Len(f.lancamentos) : f.lancamentos[i].id = lancamento_id
    THEN LET i == CHOOSE k \in 1..Len(f.lancamentos) :
                    /\ f.lancamentos[k].id = lancamento_id
                    /\ \A j \in 1..(k - 1) : f.lancamentos[j].id # lancamento_id
         IN  [f |-> [f EXCEPT
                       !.lancamentos = RemoverPrimeiro(@, lancamento_id),
                       !.orcamentos = [k \in 1..Len(@) |->
                                          RemoverLancamento(@[k], lancamento_id).orc]],
              retorno |-> f.lancamentos[i]]
    ELSE [f |-> f, retorno |-> None]

\* GerenciadorDados.definir_receitas_previstas: [erro, f]
DefinirReceitasPrevistasDoMes(f, mes, ano, receitas_previstas, orc_id) ==
    LET o == ObterOuCriarOrcamento(f, mes, ano, orc_id)
        r == DefinirReceitasPrevistas(o.f.orcamentos[o.indice], receitas_previstas)
    IN  IF o.erro # None THEN [erro |-> o.erro, f |-> f]
        ELSE [erro |-> r.erro, f |-> [o.f EXCEPT !.orcamentos[o.indice] = r.orc]]

(***************************************************************************)
(* The load of GerenciadorDados.__init__ from the four files.  A file is   *)
(* the list of the records the JSON holds.                                 *)
(***************************************************************************)
\* JsonStorage.carregar_categorias: the Categoria objects, by identifier
CarregarCategorias(arquivo) ==
    [id \in {arquivo[i].id : i \in 1..Len(arquivo)} |->
        CategoriaFromDict(CHOOSE d \in {arquivo[i] : i \in 1..Len(arquivo)} : d.id = id).obj]

\* JsonStorage.carregar_alertas
CarregarAlertas(arquivo, agora) ==
    [i \in 1..Len(arquivo) |-> AlertaFromDict(arquivo[i], agora).obj]

\* carregar_lancamentos keeping a record of unknown category, linked to the
\* first category loaded
CarregarLancamentos_SemPular(arquivo, cats) ==
    LET primeira == CHOOSE id \in DOMAIN cats : TRUE
        Lido(i) == IF arquivo[i].categoria_id \in DOMAIN cats
                   THEN CarregarLancamento(arquivo[i], cats)
                   ELSE IF DOMAIN cats = {} THEN None
                   ELSE CriarLancamentoDeDict(arquivo[i], cats[primeira])
        Presente(l) == l # None
    IN  SelectSeq([i \in 1..Len(arquivo) |-> Lido(i)], Presente)

\* JsonStorage.carregar_lancamentos: the entries of the records whose
\* category is loaded and whose class is known, in the order of the file
CarregarLancamentos(arquivo, cats) ==
    LET Presente(l) == l # None
    IN  SelectSeq([i \in 1..Len(arquivo) |-> CarregarLancamento(arquivo[i], cats)],
                  Presente)

\* the objects of a list whose identifiers a budget record names, in the
\* order of the record (lanc_map / alerta_map of carregar_orcamentos)
RECURSIVE Vincular(_, _)
Vincular(ids, objetos) ==
    IF ids = <<>> THEN <<>>
    ELSE LET achados == {i \in 1..Len(objetos) : objetos[i].id = Head(ids)}
         IN  (IF achados = {} THEN <<>>
              ELSE <<objetos[CHOOSE i \in achados : \A j \in achados : j <= i]>>)
             \o Vincular(Tail(ids), objetos)

\* JsonStorage.carregar_orcamentos: OrcamentoMensal.from_dict, then the
\* entries and the alerts appended to the private lists
CarregarOrcamentos(arquivo, lancamentos, alertas) ==
    [i \in 1..Len(arquivo) |->
        [NovoOrcamento(arquivo[i].id, arquivo[i].mes, arquivo[i].ano,
                       arquivo[i].receitas_previstas).obj
            EXCEPT !.lancamentos = Vincular(arquivo[i].lancamentos_ids, lancamentos),
                   !.alertas = Vincular(arquivo[i].alertas_ids, alertas)]]

\* GerenciadorDados._carregar_todos_dados: [f, cats]
CarregarTodosDados(arquivos, agora) ==
    LET cats == CarregarCategorias(arquivos.categorias)
        alertas == CarregarAlertas(arquivos.alertas, agora)
        lancamentos == CarregarLancamentos(arquivos.lancamentos, cats)
    IN  [cats |-> cats,
         f |-> [categorias |-> [i \in 1..Len(arquivos.categorias) |->
                                   arquivos.categorias[i].id],
                lancamentos |-> lancamentos,
                orcamentos |-> CarregarOrcamentos(arquivos.orcamentos, lancamentos,
                                                  alertas),
                alertas |-> alertas]]

(***************************************************************************)
(* A session on the facade.  objeto is the GerenciadorDados, categorias    *)
(* the Categoria objects by identifier; no budget is held outside the      *)
(* facade (orcamento = None).  The record of a call keeps the facade and   *)
(* the Categoria objects of before the call.  The uuid4 of the objects a   *)
(* call constructs are numbered by the call.                               *)
(***************************************************************************)
\* the default categories of the configuration, created by
\* inicializar_categorias_padrao on the facade of an empty data directory
IniciarCategoriasPadrao ==
    LET vazia == [categorias |-> <<>>, lancamentos |-> <<>>, orcamentos |-> <<>>,
                  alertas |-> <<>>]
        r1 == CriarCategoria(vazia, <<>>, Salario, "RECEITA", None, None, <<"cat", 1>>)
    IN  CriarCategoria(r1.f, r1.cats, Alimentacao, "DESPESA", Some(500), None,
                       <<"cat", 2>>)

InitFachada ==
    /\ categorias = IniciarCategoriasPadrao.cats
    /\ objeto = IniciarCategoriasPadrao.f
    /\ orcamento = None
    /\ chamada = None
    /\ chamadas = 0

\* the name, the kind and the limit of a category to create
CategoriasInformadas ==
    { <<AlimentacaoMaiuscula, "DESPESA", None>>,
      <<AlimentacaoMinuscula, "DESPESA", None>>,
      <<AlimentacaoMinuscula, "RECEITA", Some(300)>>,
      <<Transporte, "DESPESA", Some(300)>> }

\* the name, the limit and the description of an edit
Edicoes ==
    { <<AlimentacaoMaiuscula, None, None>>,
      <<Transporte, Some(0), None>>,
      <<Transporte, Some(300), DescricaoComBrancos>>,
      <<NomeCurto, None, DescricaoComBrancos>> }

\* class, amount, category name and payment method of an entry
MovimentosDaFachada ==
    { <<"RECEITA", 1000, Salario, "PIX">>,
      <<"DESPESA", 700, Alimentacao, "CREDITO">>,
      <<"DESPESA", 200, AlimentacaoMinuscula, "DEBITO">>,
      <<"DESPESA", 200, AlimentacaoMaiuscula, "DEBITO">>,
      <<"DESPESA", 0, Alimentacao, "PIX">> }

OcasioesDaFachada ==
    { <<Data(2024, 12, 5), Cafe>>, <<Data(2024, 12, 5), CafeMaiusculo>>,
      <<Data(2024, 11, 5), Cafe>> }

\* month, year and planned income
PrevisoesInformadas ==
    { <<12, 2024, 5000>>, <<11, 2024, -100>>, <<13, 2024, 5000>> }

Estado == [f |-> objeto, cats |-> categorias]

CriarCategoriaNaFachada ==
    /\ chamada = None /\ chamadas < MaxChamadas
    /\ \E c \in CategoriasInformadas :
          LET r == CriarCategoria(objeto, categorias, c[1], c[2], c[3], None,
                                  <<"cat", chamadas + 3>>)
          IN  /\ objeto' = r.f
              /\ categorias' = r.cats
              /\ chamada' = [op |-> "criar_categoria", antes |-> Estado,
                             arg |-> c,
                             erro |-> r.erro, retorno |-> r.retorno]
    /\ chamadas' = chamadas + 1
    /\ UNCHANGED orcamento

EditarCategoriaNaFachada ==
    /\ chamada = None /\ chamadas < MaxChamadas
    /\ \E categoria_id \in DOMAIN categorias, e \in Edicoes :
          LET r == EditarCategoria(objeto, categorias, categoria_id, e[1], e[2], e[3])
          IN  /\ objeto' = r.f
              /\ categorias' = r.cats
              /\ chamada' = [op |-> "editar_categoria", antes |-> Estado,
                             arg |-> <<categoria_id, e[1], e[2], e[3]>>,
                             erro |-> r.erro, retorno |-> r.retorno]
    /\ chamadas' = chamadas + 1
    /\ UNCHANGED orcamento

ExcluirCategoriaNaFachada ==
    /\ chamada = None /\ chamadas < MaxChamadas
    /\ \E categoria_id \in DOMAIN categorias :
          LET r == ExcluirCategoria(objeto, categoria_id)
          IN  /\ objeto' = r.f
              /\ chamada' = [op |-> "excluir_categoria", antes |-> Estado,
                             arg |-> categoria_id, erro |-> r.erro,
                             retorno |-> r.retorno]
    /\ chamadas' = chamadas + 1
    /\ UNCHANGED <<categorias, orcamento>>

\* adicionar_receita / adicionar_despesa
AdicionarNaFachada ==
    /\ chamada = None /\ chamadas < MaxChamadas
    /\ \E m \in MovimentosDaFachada, o \in OcasioesDaFachada :
          LET r == AdicionarMovimento(objeto, categorias, m[1], m[2], m[3], o[1], o[2],
                                      m[4], <<"lanc", chamadas + 1>>,
                                      <<"orc", chamadas + 1>>)
          IN  /\ objeto' = r.f
              /\ chamada' = [op |-> IF m[1] = "RECEITA" THEN "adicionar_receita"
                                    ELSE "adicionar_despesa",
                             antes |-> Estado, arg |-> <<m, o>>, erro |-> r.erro,
                             retorno |-> <<r.retorno, r.alertas>>]
    /\ chamadas' = chamadas + 1
    /\ UNCHANGED <<categorias, orcamento>>

ExcluirLancamentoNaFachada ==
    /\ chamada = None /\ chamadas < MaxChamadas
    /\ \E n \in 1..MaxChamadas :
          LET r == ExcluirLancamento(objeto, <<"lanc", n>>)
          IN  /\ objeto' = r.f
              /\ chamada' = [op |-> "excluir_lancamento", antes |-> Estado,
                             arg |-> <<"lanc", n>>, erro |-> None,
                             retorno |-> r.retorno]
    /\ chamadas' = chamadas + 1
    /\ UNCHANGED <<categorias, orcamento>>

DefinirPrevistasNaFachada ==
    /\ chamada = None /\ chamadas < MaxChamadas
    /\ \E p \in PrevisoesInformadas :
          LET r == DefinirReceitasPrevistasDoMes(objeto, p[1], p[2], p[3],
                                                 <<"orc", chamadas + 1>>)
          IN  /\ objeto' = r.f
              /\ chamada' = [op |-> "definir_receitas_previstas", antes |-> Estado,
                             arg |-> p, erro |-> r.erro,
                             retorno |-> None]
    /\ chamadas' = chamadas + 1
    /\ UNCHANGED <<categorias, orcamento>>

NextFachada ==
    \/ CriarCategoriaNaFachada
    \/ EditarCategoriaNaFachada
    \/ ExcluirCategoriaNaFachada
    \/ AdicionarNaFachada
    \/ ExcluirLancamentoNaFachada
    \/ DefinirPrevistasNaFachada
    \/ Retornar

SpecFachada == InitFachada /\ [][NextFachada]_vars

\* a call on the facade has just ended
Chamou(op) == chamada # None /\ chamada.op = op

\* ... with an exception
Falhou == chamada # None /\ chamada.erro # None

\* the categories the facade lists
Listadas == {objeto.categorias[i] : i \in 1..Len(objeto.categorias)}

\* the entries the facade holds, in its list or in a budget
Mantidos ==
    {objeto.lancamentos[i] : i \in 1..Len(objeto.lancamentos)}
    \cup UNION {{objeto.orcamentos[k].lancamentos[i] :
                    i \in 1..Len(objeto.orcamentos[k].lancamentos)} :
                k \in 1..Len(objeto.orcamentos)}

(***************************************************************************)
(* C23.  A Category is removed from the facade only if no entry references *)
(* it: excluir_categoria on a category that an entry references fails and  *)
(* changes nothing, so that, whatever facade operations are called, every  *)
(* entry of the dataset references a category the facade still lists.      *)
(***************************************************************************)
C23_CategoriaPresente ==
    /\ (Chamou("excluir_categoria")
          /\ \E i \in 1..Len(chamada.antes.f.lancamentos) :
                chamada.antes.f.lancamentos[i].categoria = chamada.arg)
       => (Falhou /\ chamada.erro.classe = "ValueError" /\ Estado = chamada.antes)
    /\ \A l \in Mantidos : l.categoria \in Listadas

\* the category of an entry the facade holds is asked to be removed
C23_Witness ==
    /\ Chamou("excluir_categoria")
    /\ Falhou
    /\ \E l \in Mantidos : l.categoria = chamada.arg
    /\ chamada.arg \in Listadas

(***************************************************************************)
(* C24.  Whatever facade operations are called, the facade holds at most   *)
(* one MonthlyBudget per (month, year); a budget, once held, stays held;   *)
(* and a budget appears only in a call of adicionar_receita,               *)
(* adicionar_despesa or definir_receitas_previstas addressed to a (month,  *)
(* year) that had no budget, and it is the budget of that (month, year).   *)
(***************************************************************************)
\* identifier, month and year of the budgets of a facade
C24_Orcamentos(f) ==
    {<<f.orcamentos[i].id, f.orcamentos[i].mes, f.orcamentos[i].ano>> :
        i \in 1..Len(f.orcamentos)}

\* the (month, year) the call that has just ended is addressed to
C24_Endereco ==
    IF Chamou("definir_receitas_previstas") THEN <<chamada.arg[1], chamada.arg[2]>>
    ELSE <<chamada.arg[2][1].month, chamada.arg[2][1].year>>

C24_Criados == C24_Orcamentos(objeto) \ C24_Orcamentos(chamada.antes.f)

C24_UmOrcamentoPorMes ==
    /\ \A i, j \in 1..Len(objeto.orcamentos) :
          OrcMesAno(objeto.orcamentos[i]) = OrcMesAno(objeto.orcamentos[j]) => i = j
    /\ chamada # None =>
          /\ C24_Orcamentos(chamada.antes.f) \subseteq C24_Orcamentos(objeto)
          /\ Cardinality(C24_Criados) <= 1
          /\ C24_Criados # {} =>
                /\ \/ Chamou("adicionar_receita")
                   \/ Chamou("adicionar_despesa")
                   \/ Chamou("definir_receitas_previstas")
                /\ \A o \in C24_Criados : <<o[2], o[3]>> = C24_Endereco
                /\ \A o \in C24_Orcamentos(chamada.antes.f) : <<o[2], o[3]>> # C24_Endereco

\* an entry of November is added to a facade that holds the budget of
\* December: the budget of November appears, sorted before it
C24_Witness ==
    /\ Chamou("adicionar_despesa")
    /\ ~Falhou
    /\ Len(chamada.antes.f.orcamentos) = 1
    /\ Len(objeto.orcamentos) = 2
    /\ OrcMesAno(objeto.orcamentos[1]) = <<11, 2024>>
    /\ OrcMesAno(objeto.orcamentos[2]) = <<12, 2024>>
    /\ Len(objeto.orcamentos[2].lancamentos) = 1

(***************************************************************************)
(* C25.  criar_categoria fails when a category equal to the requested one  *)
(* is listed, and editar_categoria fails when the new name collides in the *)
(* same way, equality being that of Category (name trimmed and up to case, *)
(* and kind): whatever criar_categoria and editar_categoria calls are      *)
(* made, with names that may carry surrounding blanks, no two categories   *)
(* the facade lists are equal.                                             *)
(***************************************************************************)
C25_SemCategoriasIguais ==
    \A i, j \in 1..Len(objeto.categorias) :
        CategoriaEq(categorias[objeto.categorias[i]], categorias[objeto.categorias[j]])
            => i = j

(***************************************************************************)
(* C27.  Whatever adicionar_receita, adicionar_despesa and                 *)
(* excluir_lancamento calls are made, failing ones included, the global    *)
(* entry list and the budgets agree: every entry of the global list is     *)
(* held by exactly one budget, the one of its (month, year); every entry a *)
(* budget holds is in the global list; and every alert of a budget's log   *)
(* is in the global alert list.                                            *)
(***************************************************************************)
\* where the budgets hold an entry: <<budget, position>>
C27_OndeEsta(l) ==
    {<<k, i>> \in (1..Len(objeto.orcamentos)) \X (1..Len(objeto.lancamentos)) :
        /\ i <= Len(objeto.orcamentos[k].lancamentos)
        /\ objeto.orcamentos[k].lancamentos[i].id = l.id}

C27_ListasDeAcordo ==
    /\ \A n \in 1..Len(objeto.lancamentos) :
          LET l == objeto.lancamentos[n]
          IN  /\ Cardinality(C27_OndeEsta(l)) = 1
              /\ \A p \in C27_OndeEsta(l) :
                    /\ objeto.orcamentos[p[1]].lancamentos[p[2]] = l
                    /\ OrcMesAno(objeto.orcamentos[p[1]]) = LancMesAno(l)
    /\ \A k \in 1..Len(objeto.orcamentos) :
          /\ Len(objeto.orcamentos[k].lancamentos) <= Len(objeto.lancamentos)
          /\ \A i \in 1..Len(objeto.orcamentos[k].lancamentos) :
                \E n \in 1..Len(objeto.lancamentos) :
                    objeto.lancamentos[n] = objeto.orcamentos[k].lancamentos[i]
          /\ \A i \in 1..Len(objeto.orcamentos[k].alertas) :
                \E n \in 1..Len(objeto.alertas) :
                    objeto.alertas[n] = objeto.orcamentos[k].alertas[i]

\* an entry is excluded from a facade of two budgets: the other entry stays
\* in the list and in its budget, and the alerts of the excluded one stay in
\* the log of its budget and in the global list
C27_Witness ==
    /\ Chamou("excluir_lancamento")
    /\ chamada.retorno # None
    /\ Len(objeto.orcamentos) = 2
    /\ Len(objeto.lancamentos) = 1
    /\ \E k \in 1..2 : /\ objeto.orcamentos[k].lancamentos = <<>>
                       /\ Len(objeto.orcamentos[k].alertas) >= 2

(***************************************************************************)
(* C28.  Every mutating call on the facade that ends in a validation error *)
(* (criar_categoria, editar_categoria with several fields of which a later *)
(* one is invalid, excluir_categoria, adicionar_receita,                   *)
(* adicionar_despesa, definir_receitas_previstas with a negative value)    *)
(* leaves the in-memory dataset exactly as it was before the call.         *)
(***************************************************************************)
C28_FalhaNaoMuda == Falhou => Estado = chamada.antes

(***************************************************************************)
(* The load.  GerenciadorDados is constructed over a data directory whose  *)
(* four files are given; before that there is no facade (objeto = None).   *)
(***************************************************************************)
\* the files: categories Pay, Food and Taxi, four entries of theirs, the
\* budgets of December and November 2024 naming the entries and an alert;
\* the categories file and the entries file may each lack records
ArquivosInformados ==
    LET Sublista(seq, S) ==
            LET F[i \in 0..Len(seq)] ==
                    IF i = 0 THEN <<>>
                    ELSE IF i \in S THEN Append(F[i - 1], seq[i]) ELSE F[i - 1]
            IN  F[Len(seq)]
        c1 == NovaCategoria(<<"cat", 1>>, Salario, "RECEITA", None, None).obj
        c2 == NovaCategoria(<<"cat", 2>>, Alimentacao, "DESPESA", Some(500), None).obj
        c3 == NovaCategoria(<<"cat", 3>>, Transporte, "DESPESA", Some(300), None).obj
        e1 == NovoLancamento("RECEITA", 1000, c1, Data(2024, 12, 5), Cafe, "PIX",
                             <<"lanc", 1>>).obj
        e2 == NovoLancamento("DESPESA", 700, c2, Data(2024, 12, 5), Pao, "CREDITO",
                             <<"lanc", 2>>).obj
        e3 == NovoLancamento("DESPESA", 200, c3, Data(2024, 12, 10), Cafe, "DEBITO",
                             <<"lanc", 3>>).obj
        e4 == NovoLancamento("DESPESA", 200, c2, Data(2024, 11, 5), Cafe, "PIX",
                             <<"lanc", 4>>).obj
        a1 == NovoAlerta("ALTO_VALOR", Aviso, <<"lanc", 2>>, None, None,
                         <<"alerta", 1>>, DataHora(Data(2024, 12, 5), 9, 30, 0, 0),
                         FALSE, DataHora(Data(2024, 12, 5), 9, 30, 0, 0)).obj
        categorias_json == <<CategoriaToDict(c1), CategoriaToDict(c2), CategoriaToDict(c3)>>
        lancamentos_json == <<LancToDict(e1), LancToDict(e2), LancToDict(e3),
                              LancToDict(e4)>>
        orcamentos_json ==
            << [id |-> <<"orc", 1>>, mes |-> 11, ano |-> 2024, receitas_previstas |-> 0,
                lancamentos_ids |-> << <<"lanc", 4>> >>, alertas_ids |-> <<>>],
               [id |-> <<"orc", 2>>, mes |-> 12, ano |-> 2024, receitas_previstas |-> 5000,
                lancamentos_ids |-> << <<"lanc", 1>>, <<"lanc", 2>>, <<"lanc", 3>> >>,
                alertas_ids |-> << <<"alerta", 1>> >>] >>
    IN  { [categorias |-> Sublista(categorias_json, C),
           lancamentos |-> Sublista(lancamentos_json, L),
           orcamentos |-> orcamentos_json,
           alertas |-> <<AlertaToDict(a1)>>] :
          C \in SUBSET (1..3), L \in SUBSET (1..4) }

InitCarga ==
    /\ categorias = <<>>
    /\ objeto = None
    /\ orcamento = None
    /\ chamada = None
    /\ chamadas = 0

\* GerenciadorDados(data_dir)
CarregarDados ==
    /\ chamada = None /\ chamadas < MaxChamadas
    /\ \E arquivos \in ArquivosInformados :
          LET r == CarregarTodosDados(arquivos, DataHora(Data(2024, 12, 31), 23, 59, 58, 0))
          IN  /\ objeto' = r.f
              /\ categorias' = r.cats
              /\ chamada' = [op |-> "carregar_todos_dados", antes |-> Estado,
                             arg |-> arquivos, erro |-> None, retorno |-> None]
    /\ chamadas' = chamadas + 1
    /\ UNCHANGED orcamento

NextCarga == CarregarDados \/ Retornar

SpecCarga == InitCarga /\ [][NextCarga]_vars

(***************************************************************************)
(* C26.  At load time an entry record whose category id matches no loaded  *)
(* category is skipped without error: it is absent from the entry list of  *)
(* the facade and from the collection of every budget, while all the other *)
(* entries and all the budgets load normally.                              *)
(***************************************************************************)
\* the identifiers in the records of a file
C26_Ids(arquivo) == {arquivo[i].id : i \in 1..Len(arquivo)}

\* the entry records of the files whose category is in the categories file
C26_ComCategoria ==
    {i \in 1..Len(chamada.arg.lancamentos) :
        chamada.arg.lancamentos[i].categoria_id \in C26_Ids(chamada.arg.categorias)}

\* the fields of an entry record that the load reads
C26_Campos(d) ==
    [id |-> d.id, tipo |-> d.tipo, valor |-> d.valor, categoria_id |-> d.categoria_id,
     data |-> d.data, descricao |-> d.descricao, forma_pagamento |-> d.forma_pagamento]

\* the identifiers of a list of objects, in order
C26_IdsEmOrdem(objetos) == [i \in 1..Len(objetos) |-> objetos[i].id]

C26_OrfaosPulados ==
    Chamou("carregar_todos_dados") =>
        LET arq == chamada.arg
            validos == {arq.lancamentos[i].id : i \in C26_ComCategoria}
            EhValido(id) == id \in validos
        IN  /\ chamada.erro = None
            /\ \A l \in Mantidos : l.id \in validos
            /\ {objeto.lancamentos[n].id : n \in 1..Len(objeto.lancamentos)} = validos
            /\ Len(objeto.lancamentos) = Cardinality(C26_ComCategoria)
            /\ \A n \in 1..Len(objeto.lancamentos) :
                  \E i \in C26_ComCategoria :
                      /\ Cardinality({j \in C26_ComCategoria : j < i}) = n - 1
                      /\ C26_Campos(LancToDict(objeto.lancamentos[n]))
                            = C26_Campos(arq.lancamentos[i])
            /\ Len(objeto.orcamentos) = Len(arq.orcamentos)
            /\ \A k \in 1..Len(arq.orcamentos) :
                  /\ objeto.orcamentos[k].id = arq.orcamentos[k].id
                  /\ objeto.orcamentos[k].mes = arq.orcamentos[k].mes
                  /\ objeto.orcamentos[k].ano = arq.orcamentos[k].ano
                  /\ objeto.orcamentos[k].receitas_previstas
                        = arq.orcamentos[k].receitas_previstas
                  /\ C26_IdsEmOrdem(objeto.orcamentos[k].lancamentos)
                        = SelectSeq(arq.orcamentos[k].lancamentos_ids, EhValido)
                  /\ C26_IdsEmOrdem(objeto.orcamentos[k].alertas)
                        = arq.orcamentos[k].alertas_ids
                  /\ \A i \in 1..Len(objeto.orcamentos[k].lancamentos) :
                        \E n \in 1..Len(objeto.lancamentos) :
                            objeto.lancamentos[n] = objeto.orcamentos[k].lancamentos[i]

\* the files hold the four entries and the categories Pay and Food: the
\* entry of Taxi is skipped, the other three and both budgets are loaded
C26_Witness ==
    /\ Chamou("carregar_todos_dados")
    /\ Len(chamada.arg.lancamentos) = 4
    /\ C26_Ids(chamada.arg.categorias) = {<<"cat", 1>>, <<"cat", 2>>}
    /\ C26_IdsEmOrdem(objeto.lancamentos) = << <<"lanc", 1>>, <<"lanc", 2>>, <<"lanc", 4>> >>
    /\ Len(objeto.orcamentos) = 2
    /\ C26_IdsEmOrdem(objeto.orcamentos[2].lancamentos) = << <<"lanc", 1>>, <<"lanc", 2>> >>

====
